---- MODULE Spec2Model ----
(***************************************************************************)
(* Dependency graph engine of versionconductor (package graph).            *)
(*                                                                         *)
(* Module ids are modelled as the integers 1..NumIds: the integer order    *)
(* stands for the ascending lexicographic order of the id strings that     *)
(* sort.Strings and sort.Slice use.  A Go map read of a missing key        *)
(* yields the zero value, so the edge indices are total functions whose    *)
(* default is the empty sequence.                                          *)
(***************************************************************************)
EXTENDS Integers, Sequences, FiniteSets, TLC

\* ---------------------------------------------------------------- bounds
NumIds        == 3    \* distinct module ids
MaxDeps       == 2    \* length of one module's dependency list
MaxAdds       == 4    \* AddModule calls in one behaviour of Spec
MaxEdges      == 3    \* entries accumulated in a graph's forward index
MaxQueryAdds  == 2    \* AddModule calls in one behaviour of SpecQuery
MaxQueryEdges == 2    \* forward index entries of a graph in SpecQuery
MaxStaleAdds  == 2    \* AddModule calls in one behaviour of SpecStale
MaxStaleEdges == 2    \* forward index entries of the graph in SpecStale
TTL           == 3    \* time-to-live of a cache entry, in clock ticks
MaxTime       == 4    \* last value of the clock
MaxCalls      == 3    \* cache calls in one behaviour of SpecCache
NumProcs      == 2    \* concurrent callers of one cache in SpecConc
MaxConcCalls  == 2    \* cache calls in one behaviour of SpecConc
MaxConcTime   == 1    \* last value of the clock in SpecConc
MaxOrgs       == 2    \* accounts of a portfolio passed to Build
MaxRepos      == 2    \* repositories one listing accumulates
MaxExportAdds  == 2   \* AddModule calls in one behaviour of SpecExport
MaxExportEdges == 2   \* forward index entries of the graph in SpecExport
MaxLines       == 3   \* lines of a go.mod file
MaxRaceCalls   == 3   \* cache calls in one behaviour of SpecRace
MaxCachedCalls == 2   \* calls in one behaviour of SpecCachedBuild

ModuleIds == 1..NumIds

\* ---------------------------------------------------------------- types
LanguageGo         == "go"
LanguageTypeScript == "typescript"

\* The id scheme "<language>:<host>/<org>/<name>" fixes a module's language
\* and org; ids are spread over two languages and two orgs.
LanguageOf(id) == IF id % 3 = 0 THEN LanguageTypeScript ELSE LanguageGo
OrgOf(id)      == IF id % 2 = 0 THEN "github.com/agentplexus" ELSE "github.com/grokify"

Orgs      == {OrgOf(id) : id \in ModuleIds}
Languages == {LanguageOf(id) : id \in ModuleIds}

ZeroPortfolio == [Name |-> "", Orgs |-> <<>>, Languages |-> <<>>]
Portfolios ==
    {[Name |-> "test-portfolio", Orgs |-> <<"github.com/grokify">>, Languages |-> <<"go">>]}

ModuleRef(id) == [ID |-> id, Version |-> "v1.0.0", IsManaged |-> TRUE]

\* a reference pinned to a given version string
Versions == {"v0.10.0", "v0.9.0", "v1.0.0"}
ModuleRefAt(id, version) == [ID |-> id, Version |-> version, IsManaged |-> TRUE]

SeqsUpTo(S, n) == UNION {[1..k -> S] : k \in 0..n}

DepLists == SeqsUpTo({ModuleRef(id) : id \in ModuleIds}, MaxDeps)

Module(id, managed, deps) ==
    [ID |-> id, Language |-> LanguageOf(id), Org |-> OrgOf(id),
     IsManaged |-> managed, Dependencies |-> deps]

ModuleInputs == {Module(id, mg, deps) : id \in ModuleIds, mg \in BOOLEAN, deps \in DepLists}

\* ---------------------------------------------------------------- graph
NewGraph ==
    [portfolio |-> ZeroPortfolio,
     modules   |-> << >>,
     edges     |-> [id \in ModuleIds |-> << >>],
     reverse   |-> [id \in ModuleIds |-> << >>]]

RECURSIVE AddEdges(_, _, _, _)
AddEdges(g, id, deps, i) ==
    IF i > Len(deps) THEN g
    ELSE LET dep == deps[i].ID
             g1  == [g EXCEPT !.edges[id]    = Append(@, dep),
                              !.reverse[dep] = Append(@, id)]
         IN AddEdges(g1, id, deps, i + 1)

PutModule(mods, m) ==
    [id \in (DOMAIN mods) \cup {m.ID} |-> IF id = m.ID THEN m ELSE mods[id]]

AddModule(g, m) ==
    AddEdges([g EXCEPT !.modules = PutModule(g.modules, m)], m.ID, m.Dependencies, 1)

\* ---------------------------------------------------------------- helpers
Range(s) == {s[i] : i \in DOMAIN s}

Min(S) == CHOOSE x \in S : \A y \in S : x <= y

\* the element of a singleton set; {e(x) : x \in {d}} evaluates d once
Only(S) == CHOOSE x \in S : TRUE

RECURSIVE SortedSeq(_)
\* the elements of a set of ids in ascending order (sort.Slice by ID)
SortedSeq(S) == IF S = {} THEN << >> ELSE <<Min(S)>> \o SortedSeq(S \ {Min(S)})

RECURSIVE Insert(_, _)
Insert(s, x) ==
    IF s = << >> THEN <<x>>
    ELSE IF x <= Head(s) THEN <<x>> \o s
    ELSE <<Head(s)>> \o Insert(Tail(s), x)

RECURSIVE SortStrings(_)
\* sort.Strings on a queue of ids
SortStrings(q) == IF q = << >> THEN << >> ELSE Insert(SortStrings(Tail(q)), Head(q))

\* every iteration order a Go range over the keys S of a map can take
Orders(S) == {o \in [1..Cardinality(S) -> S] : Range(o) = S}

RECURSIVE SumLen(_, _)
SumLen(f, S) ==
    IF S = {} THEN 0
    ELSE LET x == Min(S) IN Len(f[x]) + SumLen(f, S \ {x})

\* ---------------------------------------------------------------- queries
GetModule(g, id) ==
    IF id \in DOMAIN g.modules THEN [m |-> g.modules[id], ok |-> TRUE]
    ELSE [m |-> "nil", ok |-> FALSE]

RECURSIVE Resolve(_, _)
\* the modules of the ids of a list, ids missing from the graph omitted
Resolve(g, ids) ==
    IF ids = << >> THEN << >>
    ELSE (IF Head(ids) \in DOMAIN g.modules THEN <<g.modules[Head(ids)]>> ELSE << >>)
         \o Resolve(g, Tail(ids))

Dependents(g, moduleID) == Resolve(g, g.reverse[moduleID])

Dependencies(g, moduleID) == Resolve(g, g.edges[moduleID])

AllModules(g) ==
    LET ids == SortedSeq(DOMAIN g.modules)
    IN [i \in DOMAIN ids |-> g.modules[ids[i]]]

ManagedModules(g) ==
    LET ids == SortedSeq({id \in DOMAIN g.modules : g.modules[id].IsManaged})
    IN [i \in DOMAIN ids |-> g.modules[ids[i]]]

\* ---------------------------------------------------------------- UpgradeOrder
ManagedSet(g) == {m.ID : m \in Range(ManagedModules(g))}

\* InDegree counting every entry of the dependency list, managed target or not
InDegreeAnyTarget(g) ==
    [id \in ManagedSet(g) |-> Len(g.modules[id].Dependencies)]

\* in-degree of the managed modules: one count per entry of the dependency
\* list whose target is a managed module of the graph
InDegree(g) ==
    [id \in ManagedSet(g) |->
        Cardinality({i \in DOMAIN g.modules[id].Dependencies :
                        g.modules[id].Dependencies[i].ID \in ManagedSet(g)})]

RECURSIVE Relax(_, _, _, _)
\* the loop over g.reverse[id]: decrement each managed dependent and queue it
\* when its in-degree reaches zero
Relax(g, rev, inDegree, queue) ==
    IF rev = << >> THEN [inDegree |-> inDegree, queue |-> queue]
    ELSE LET depID == Head(rev) IN
         IF depID \notin ManagedSet(g) THEN Relax(g, Tail(rev), inDegree, queue)
         ELSE LET d == [inDegree EXCEPT ![depID] = @ - 1]
              IN Relax(g, Tail(rev), d,
                       IF d[depID] = 0 THEN Append(queue, depID) ELSE queue)

RECURSIVE Kahn(_, _, _, _, _)
Kahn(g, queue, inDegree, visited, result) ==
    IF queue = << >> THEN [Modules |-> result, visited |-> visited]
    ELSE LET id == Head(queue)
             q1 == Tail(queue)
         IN IF id \in visited THEN Kahn(g, q1, inDegree, visited, result)
            ELSE LET res1 == IF id \in DOMAIN g.modules
                                THEN Append(result, g.modules[id]) ELSE result
                     r    == Relax(g, g.reverse[id], inDegree, q1)
                 IN Kahn(g, SortStrings(r.queue), r.inDegree, visited \cup {id}, res1)

\* the queue before the loop: the managed modules of in-degree zero, sorted
InitialQueue(g) == SortedSeq({id \in ManagedSet(g) : InDegree(g)[id] = 0})

UpgradeOrderNoCycle(g) ==
    [Modules |-> Kahn(g, InitialQueue(g), InDegree(g), {}, << >>).Modules,
     Cycles |-> << >>, err |-> "nil"]

\* The ids of a Cycle record are appended in map iteration order; the record
\* is modelled by the set of its ids.
UpgradeOrder(g) ==
    LET managed  == ManagedModules(g)
        k        == Kahn(g, InitialQueue(g), InDegree(g), {}, << >>)
    IN [Modules |-> k.Modules,
        Cycles  |-> IF Len(k.Modules) < Len(managed)
                       THEN <<[Modules |-> ManagedSet(g) \ k.visited]>>
                       ELSE << >>,
        err     |-> "nil"]

\* ---------------------------------------------------------------- StaleModules
\* Version strings in ascending order of Go's string comparison; the rank
\* stands for the comparison dep.Version < minVersion.
VersionRank == [v \in {"v0.10.0", "v0.9.0", "v1.0.0"} |->
                  IF v = "v0.10.0" THEN 1 ELSE IF v = "v0.9.0" THEN 2 ELSE 3]

\* ParseModuleID splits "<language>:<name>" at the first colon.  A name is
\* written as the id of the Go module that carries it: a TypeScript id
\* shares its name with the Go id two below it ("typescript:x" and "go:x").
NameOf(id) == IF LanguageOf(id) = LanguageTypeScript THEN id - 2 ELSE id
ParseModuleID(id) == [language |-> LanguageOf(id), name |-> NameOf(id)]

RECURSIVE StaleDeps(_, _, _, _)
StaleDeps(m, deps, dependency, minVersion) ==
    IF deps = << >> THEN << >>
    ELSE (IF /\ ParseModuleID(Head(deps).ID).name = dependency
             /\ VersionRank[Head(deps).Version] < VersionRank[minVersion]
          THEN <<[Module |-> m, Dependency |-> dependency,
                  Current |-> Head(deps).Version, Latest |-> minVersion]>>
          ELSE << >>)
         \o StaleDeps(m, Tail(deps), dependency, minVersion)

RECURSIVE StaleOf(_, _, _)
StaleOf(mods, dependency, minVersion) ==
    IF mods = << >> THEN << >>
    ELSE StaleDeps(Head(mods), Head(mods).Dependencies, dependency, minVersion)
         \o StaleOf(Tail(mods), dependency, minVersion)

StaleModulesAllModules(g, dependency, minVersion) ==
    StaleOf(AllModules(g), dependency, minVersion)

StaleModules(g, dependency, minVersion) ==
    StaleOf(ManagedModules(g), dependency, minVersion)

\* ---------------------------------------------------------------- Stats, Validate
Stats(g) ==
    LET langs   == {g.modules[id].Language : id \in DOMAIN g.modules}
        orgs    == {g.modules[id].Org : id \in DOMAIN g.modules}
        deps    == [id \in DOMAIN g.modules |-> g.modules[id].Dependencies]
    IN [TotalModules    |-> Cardinality(DOMAIN g.modules),
        ManagedModules  |-> Cardinality({id \in DOMAIN g.modules : g.modules[id].IsManaged}),
        ExternalModules |-> Cardinality({id \in DOMAIN g.modules : ~g.modules[id].IsManaged}),
        TotalEdges      |-> SumLen(deps, DOMAIN g.modules),
        ByLanguage      |-> [l \in langs |->
                               Cardinality({id \in DOMAIN g.modules : g.modules[id].Language = l})],
        ByOrg           |-> [o \in orgs |->
                               Cardinality({id \in DOMAIN g.modules : g.modules[id].Org = o})]]

\* The issues are appended in map iteration order and the cycle issue names
\* the first id of the Cycle record; the result is modelled by the set of
\* issues, a cycle issue carrying the ids of its record.
Validate(g) ==
    {[Type |-> "missing_dependency", Module |-> id, Dependency |-> d.ID] :
        <<id, d>> \in {<<i, r>> \in UNION {{i} \X Range(g.modules[i].Dependencies) : i \in DOMAIN g.modules} :
                          r.ID \notin DOMAIN g.modules /\ r.IsManaged}}
    \cup
    {[Type |-> "cycle", Modules |-> c.Modules] : c \in Range(UpgradeOrder(g).Cycles)}

\* ---------------------------------------------------------------- filters, snapshots
RECURSIVE AddAll(_, _, _)
\* AddModule for each module of mods, in the iteration order ord
AddAll(g, mods, ord) ==
    IF ord = << >> THEN g
    ELSE AddAll(AddModule(g, mods[Head(ord)]), mods, Tail(ord))

\* the sub-map of the entries with the ids a range loop keeps
Keep(mods, ids) == [id \in ids |-> mods[id]]

\* The graphs live in a heap of *DependencyGraph objects, graphs[h] being the
\* object behind handle h; NewGraph allocates the next handle.
Alloc(graphs, g) == [graphs |-> Append(graphs, g), ret |-> Len(graphs) + 1]

\* FilterByOrg handing back its receiver instead of a new graph
FilterByOrgInPlace(graphs, h, org, ord) == [graphs |-> graphs, ret |-> h]

\* ord: the order in which the range over g.modules visits the kept modules
FilterByOrg(graphs, h, org, ord) ==
    LET g     == graphs[h]
        match == {id \in DOMAIN g.modules : g.modules[id].Org = org}
        new   == [NewGraph EXCEPT !.portfolio = g.portfolio]
    IN Alloc(graphs, AddAll(new, Keep(g.modules, match), ord))

\* FilterByLanguage keeping the modules of every other language
FilterByLanguageInverted(graphs, h, lang, ord) ==
    LET g     == graphs[h]
        match == {id \in DOMAIN g.modules : g.modules[id].Language # lang}
        new   == [NewGraph EXCEPT !.portfolio = g.portfolio]
    IN Alloc(graphs, AddAll(new, Keep(g.modules, match), SortedSeq(match)))

FilterByLanguage(graphs, h, lang, ord) ==
    LET g     == graphs[h]
        match == {id \in DOMAIN g.modules : g.modules[id].Language = lang}
        new   == [NewGraph EXCEPT !.portfolio = g.portfolio]
    IN Alloc(graphs, AddAll(new, Keep(g.modules, match), ord))

\* Snapshot copying the managed modules only
SnapshotManagedOnly(g) ==
    [Portfolio |-> g.portfolio, Timestamp |-> "",
     Modules |-> [id \in ManagedSet(g) |-> g.modules[id]]]

Snapshot(g) ==
    [Portfolio |-> g.portfolio, Timestamp |-> "", Modules |-> [id \in DOMAIN g.modules |-> g.modules[id]]]

\* ord: the order in which the range over snapshot.Modules visits the modules
BuildFromSnapshot(snapshot, ord) ==
    AddAll([NewGraph EXCEPT !.portfolio = snapshot.Portfolio], snapshot.Modules, ord)

\* ---------------------------------------------------------------- go.mod parser
\* The content of a go.mod file is a sequence of lines, a line the sequence
\* of its whitespace-separated words after strings.TrimSpace; words are
\* separated by one space.  The path of the module with id n is the word
\* ToString(n).  LongWord stands for a word of MaxScanTokenSize bytes.
MaxScanTokenSize == 65536
LongWord == "v1.0.0-longlonglong"
WordLen(word) == IF word = LongWord THEN MaxScanTokenSize ELSE 8

RECURSIVE LineLen(_)
LineLen(line) ==
    IF line = << >> THEN 0
    ELSE WordLen(Head(line)) + (IF Len(line) > 1 THEN 1 ELSE 0) + LineLen(Tail(line))

PathWord(id) == ToString(id)
ZeroModuleVersion == [Path |-> "", Version |-> "", Indirect |-> FALSE]
ZeroModuleReplace == [Old |-> ZeroModuleVersion, New |-> ZeroModuleVersion]
ZeroGoModInfo ==
    [Module |-> << >>, Go |-> << >>, Require |-> << >>, Replace |-> << >>, Exclude |-> << >>]

\* strings.Contains(line, "// indirect")
HasIndirectMarker(line) ==
    \E i \in 1..(Len(line) - 1) : line[i] = "//" /\ line[i + 1] = "indirect"

\* strings.Split(line, "//")[0]
BeforeComment(line) ==
    LET at == {i \in DOMAIN line : line[i] = "//"}
    IN IF at = {} THEN line ELSE SubSeq(line, 1, Min(at) - 1)

parseModuleVersion(line) ==
    LET indirect == HasIndirectMarker(line)
        parts == IF indirect THEN BeforeComment(line) ELSE line
    IN IF Len(parts) < 2 THEN ZeroModuleVersion
       ELSE [Path |-> parts[1], Version |-> parts[2], Indirect |-> indirect]

\* strings.Split(line, " => ") and the fields of its two parts
parseModuleReplace(line) ==
    LET at == {i \in DOMAIN line : line[i] = "=>" /\ 1 < i /\ i < Len(line)}
    IN IF Cardinality(at) # 1 THEN ZeroModuleReplace
       ELSE LET k == Min(at)
                oldFields == SubSeq(line, 1, k - 1)
                newFields == SubSeq(line, k + 1, Len(line))
            IN [Old |-> [Path |-> oldFields[1],
                         Version |-> IF Len(oldFields) > 1 THEN oldFields[2] ELSE "",
                         Indirect |-> FALSE],
                New |-> [Path |-> newFields[1],
                         Version |-> IF Len(newFields) > 1 THEN newFields[2] ELSE "",
                         Indirect |-> FALSE]]

\* strings.HasPrefix(line, directive + " ")
HasDirective(line, directive) == Len(line) >= 2 /\ line[1] = directive

AppendRequire(st, mv) ==
    IF mv.Path # "" THEN [st EXCEPT !.info.Require = Append(@, mv)] ELSE st
AppendExclude(st, mv) ==
    IF mv.Path # "" THEN [st EXCEPT !.info.Exclude = Append(@, mv)] ELSE st
AppendReplace(st, mr) ==
    IF mr.Old.Path # "" THEN [st EXCEPT !.info.Replace = Append(@, mr)] ELSE st

\* the lines that fall through to the block contents
BlockContents(st, line) ==
    LET s1 == IF st.inRequireBlock THEN AppendRequire(st, parseModuleVersion(line)) ELSE st
        s2 == IF st.inReplaceBlock THEN AppendReplace(s1, parseModuleReplace(line)) ELSE s1
    IN IF st.inExcludeBlock THEN AppendExclude(s2, parseModuleVersion(line)) ELSE s2

\* the body of the scanner loop of ParseGoMod for one line
ParseLine(st, line) ==
    IF line = << >> \/ line[1] = "//" THEN st
    ELSE IF line = <<"require", "(">> THEN [st EXCEPT !.inRequireBlock = TRUE]
    ELSE IF line = <<"replace", "(">> THEN [st EXCEPT !.inReplaceBlock = TRUE]
    ELSE IF line = <<"exclude", "(">> THEN [st EXCEPT !.inExcludeBlock = TRUE]
    ELSE IF line = <<")">>
    THEN [st EXCEPT !.inRequireBlock = FALSE, !.inReplaceBlock = FALSE,
                    !.inExcludeBlock = FALSE]
    ELSE IF HasDirective(line, "module") THEN [st EXCEPT !.info.Module = Tail(line)]
    ELSE IF HasDirective(line, "go") THEN [st EXCEPT !.info.Go = Tail(line)]
    ELSE IF HasDirective(line, "require") /\ ~st.inRequireBlock
    THEN AppendRequire(st, parseModuleVersion(Tail(line)))
    ELSE IF HasDirective(line, "replace") /\ ~st.inReplaceBlock
    THEN AppendReplace(st, parseModuleReplace(Tail(line)))
    ELSE IF HasDirective(line, "exclude") /\ ~st.inExcludeBlock
    THEN AppendExclude(st, parseModuleVersion(Tail(line)))
    ELSE BlockContents(st, line)

RECURSIVE ScanLines(_, _)
\* scanner.Scan() fails at a line that does not fit the scanner's buffer
ScanLines(st, lines) ==
    IF lines = << >> THEN [info |-> st.info, err |-> "nil"]
    ELSE IF LineLen(Head(lines)) >= MaxScanTokenSize
    THEN [info |-> st.info, err |-> "bufio.Scanner: token too long"]
    ELSE Only({ScanLines(next, Tail(lines)) : next \in {ParseLine(st, Head(lines))}})

ParseGoMod(content) ==
    ScanLines([info |-> ZeroGoModInfo, inRequireBlock |-> FALSE,
               inReplaceBlock |-> FALSE, inExcludeBlock |-> FALSE], content)

\* the lines go.mod files are made of
GoModLines ==
    {<<"module", PathWord(1)>>, <<"go", "1.21">>, <<"require", "(">>, <<")">>,
     <<PathWord(1), "v1.0.0">>, <<PathWord(2), "v1.0.0", "//", "indirect">>,
     <<"require", PathWord(1), "v1.0.0">>,
     <<"require", PathWord(2), "v1.0.0", "//", "indirect">>,
     <<PathWord(2)>>, <<"require", PathWord(2)>>, << >>, <<"//", "comment">>,
     <<PathWord(1), LongWord>>}
GoModContents == SeqsUpTo(GoModLines, MaxLines)

\* ---------------------------------------------------------------- export
\* Text is a sequence of lines, a line the sequence of the values printed
\* into it.  An id string is written as the sequence of its atoms, the
\* separator characters being atoms of their own: "go:github.com/grokify/mogo"
\* is <<"go", ":", "github", ".", "com", "/", "grokify", "/", "mogo">>.
NameAtoms(n) ==
    <<"github", ".", "com", "/", IF n % 2 = 0 THEN "agentplexus" ELSE "grokify", "/",
      IF n = 1 THEN "mogo" ELSE IF n = 2 THEN "core" ELSE "gogithub">>
IDAtoms(id) == <<LanguageOf(id), ":">> \o NameAtoms(NameOf(id))

\* strings.NewReplacer(":", "_", "/", "_", ".", "_", "-", "_", "@", "_")
nodeID(id) ==
    [i \in DOMAIN IDAtoms(id) |->
        IF IDAtoms(id)[i] \in {":", "/", ".", "-", "@"} THEN "_" ELSE IDAtoms(id)[i]]

mermaidID(id) ==
    LET atoms == IDAtoms(id)
    IN [i \in DOMAIN atoms |-> IF atoms[i] \in {":", "/", ".", "-", "@"} THEN "_" ELSE atoms[i]]

\* the part of the id after the first colon
extractModuleName(id) ==
    LET atoms == IDAtoms(id)
        colons == {i \in DOMAIN atoms : atoms[i] = ":"}
    IN IF colons = {} THEN atoms ELSE SubSeq(atoms, Min(colons) + 1, Len(atoms))

RECURSIVE shortModuleName(_)
\* the part of a name after its last "/"
shortModuleName(name) ==
    IF \E i \in DOMAIN name : name[i] = "/"
    THEN shortModuleName(Tail(name))
    ELSE name

escapeLabel(s) ==
    [i \in DOMAIN s |-> IF s[i] = "\"" THEN "\\\"" ELSE IF s[i] = "\n" THEN "\\n" ELSE s[i]]

DefaultDOTConfig ==
    [Title |-> "Dependency Graph", RankDir |-> "TB", ShowExternal |-> FALSE,
     ShowVersions |-> TRUE, ClusterByOrg |-> TRUE,
     ColorManaged |-> "#4CAF50", ColorExternal |-> "#9E9E9E"]

DOTConfigs ==
    {[DefaultDOTConfig EXCEPT !.ShowExternal = se, !.ClusterByOrg = cl] :
        se \in BOOLEAN, cl \in BOOLEAN}

DefaultMermaidConfig == [Direction |-> "TB", ShowExternal |-> FALSE]

MermaidConfigs == {[DefaultMermaidConfig EXCEPT !.ShowExternal = se] : se \in BOOLEAN}

\* the Name of a module is the name part of its ID
writeNode(m, cfg, indent) ==
    <<indent, nodeID(m.ID), " [label=\"",
      escapeLabel(shortModuleName(extractModuleName(m.ID))),
      "\", fillcolor=\"", IF m.IsManaged THEN cfg.ColorManaged ELSE cfg.ColorExternal,
      "\"];">>

RECURSIVE Flatten(_)
Flatten(ss) == IF ss = << >> THEN << >> ELSE Head(ss) \o Flatten(Tail(ss))

\* the modules that the loops of WriteDOT do not skip
Shown(g, cfg) == {id \in DOMAIN g.modules : cfg.ShowExternal \/ g.modules[id].IsManaged}

\* orgModules: per Org the shown modules, appended in the order ord of the
\* range over g.modules
OrgModules(g, cfg, ord) ==
    LET shown == SelectSeq(ord, LAMBDA id : id \in Shown(g, cfg))
    IN [org \in {g.modules[id].Org : id \in Shown(g, cfg)} |->
           SelectSeq(shown, LAMBDA id : g.modules[id].Org = org)]

\* one cluster of WriteDOT
Cluster(g, cfg, org, ids, clusterNum) ==
    << <<"  subgraph cluster_", clusterNum, " {">>,
       <<"    label=\"", escapeLabel(<<IF org = "" THEN "external" ELSE org>>), "\";">>,
       <<"    style=dashed;">> >>
    \o [i \in DOMAIN ids |-> writeNode(g.modules[ids[i]], cfg, "    ")]
    \o << <<"  }">>, <<"">> >>

\* the edge lines of one module of WriteDOT
DOTEdges(g, cfg, m) ==
    LET deps == SelectSeq(m.Dependencies,
                    LAMBDA dep : /\ (cfg.ShowExternal \/ dep.IsManaged)
                                 /\ (dep.ID \in DOMAIN g.modules \/ cfg.ShowExternal))
    IN [i \in DOMAIN deps |->
           IF cfg.ShowVersions /\ deps[i].Version # ""
           THEN <<"  ", nodeID(m.ID), " -> ", nodeID(deps[i].ID),
                  " [label=\"", escapeLabel(<<deps[i].Version>>), "\"];">>
           ELSE <<"  ", nodeID(m.ID), " -> ", nodeID(deps[i].ID), ";">>]

\* WriteDOT; ordCollect, ordNodes and ordEdges are the orders of its three
\* ranges over g.modules, ordOrgs the order of its range over orgModules
WriteDOT(g, cfg, ordCollect, ordOrgs, ordNodes, ordEdges) ==
    LET orgModules == OrgModules(g, cfg, ordCollect)
        nodes == SelectSeq(ordNodes, LAMBDA id : id \in Shown(g, cfg))
        from  == SelectSeq(ordEdges, LAMBDA id : id \in Shown(g, cfg))
    IN << <<"digraph dependencies {">>,
          <<"  label=\"", cfg.Title, "\";">>,
          <<"  labelloc=\"t\";">>,
          <<"  rankdir=\"", cfg.RankDir, "\";">>,
          <<"  node [shape=box, style=filled];">>,
          <<"">> >>
       \o (IF cfg.ClusterByOrg
           THEN Flatten([i \in DOMAIN ordOrgs |->
                            Cluster(g, cfg, ordOrgs[i], orgModules[ordOrgs[i]], i - 1)])
           ELSE [i \in DOMAIN nodes |-> writeNode(g.modules[nodes[i]], cfg, "  ")]
                \o << <<"">> >>)
       \o Flatten([i \in DOMAIN from |-> DOTEdges(g, cfg, g.modules[from[i]])])
       \o << <<"}">> >>

RECURSIVE MermaidDeps(_, _, _, _)
\* the inner loop of WriteMermaid over the dependencies of one module; w is
\* the pair of writtenNodes and the lines written so far
MermaidDeps(cfg, m, i, w) ==
    IF i > Len(m.Dependencies) THEN w
    ELSE LET dep == m.Dependencies[i]
             toID == mermaidID(dep.ID)
         IN IF ~cfg.ShowExternal /\ ~dep.IsManaged
            THEN MermaidDeps(cfg, m, i + 1, w)
            ELSE LET node == IF toID \in w.writtenNodes THEN << >>
                             ELSE << <<"    ", toID, "[",
                                      shortModuleName(extractModuleName(dep.ID)), "]",
                                      IF dep.IsManaged THEN ":::managed" ELSE "">> >>
                 IN MermaidDeps(cfg, m, i + 1,
                        [writtenNodes |-> w.writtenNodes \cup {toID},
                         lines |-> w.lines \o node
                                   \o << <<"    ", mermaidID(m.ID), " --> ", toID>> >>])

RECURSIVE MermaidModules(_, _, _, _)
\* the loop of WriteMermaid over g.modules in the order ord
MermaidModules(g, cfg, ord, w) ==
    IF ord = << >> THEN w
    ELSE LET m == g.modules[Head(ord)]
             fromID == mermaidID(m.ID)
         IN IF ~cfg.ShowExternal /\ ~m.IsManaged
            THEN MermaidModules(g, cfg, Tail(ord), w)
            ELSE LET node == IF fromID \in w.writtenNodes THEN << >>
                             ELSE << <<"    ", fromID, "[",
                                      shortModuleName(extractModuleName(m.ID)), "]",
                                      IF m.IsManaged THEN ":::managed" ELSE "">> >>
                 IN MermaidModules(g, cfg, Tail(ord),
                        MermaidDeps(cfg, m, 1,
                            [writtenNodes |-> w.writtenNodes \cup {fromID},
                             lines |-> w.lines \o node]))

WriteMermaid(g, cfg, ord) ==
    MermaidModules(g, cfg, ord,
        [writtenNodes |-> {}, lines |-> << <<"graph ", cfg.Direction>> >>]).lines
    \o << <<"    classDef managed fill:#4CAF50,color:#fff">> >>

\* ---------------------------------------------------------------- cache
\* Time is a counter of clock ticks; TTL is the configured time-to-live.
\* Cache keys are hashed to file names; the two hashes are the first 16
\* bytes of the SHA-256 of "k1" and "k2" in hex.
Keys == {"k1", "k2"}
hashKey(key) ==
    IF key = "k1" THEN "6ab9f1eb8f7d3388f4f9d586f66e99fd"
    ELSE IF key = "gomod:grokify/mogo:main" THEN "0301b997ba026f3267954220fc3e5afb"
    ELSE IF key = "gomod:grokify/gogithub:main" THEN "72a1cbf02c40f2140496c4ee15940173"
    ELSE IF key = "gomod:agentplexus/core:main" THEN "0b2ec465ec6cfa73cf37f13470cfcb18"
    ELSE IF key = "graph:test:github.com/grokify" THEN "093b1711648d1e4e015281f6a0095227"
    ELSE IF key = "graph:test:github.com/agentplexus" THEN "11542b8bf640844a65bb7b837f7a7393"
    ELSE "015f7e6bc5aeaf483724089e9252cc13"
Hashes    == {hashKey(key) : key \in Keys}
HashOrder == <<"015f7e6bc5aeaf483724089e9252cc13", "6ab9f1eb8f7d3388f4f9d586f66e99fd">>

\* byte strings passed to Set: a JSON document and one that is not JSON
Bytes == {"\"x\"", "raw"}

\* the cache directory: a partial function from file names to contents
ExtOrder == <<".json", ".json.meta", ".meta">>
File(hash, ext) == [hash |-> hash, ext |-> ext]
DirOrder ==
    [i \in 1..(3 * Len(HashOrder)) |->
        File(HashOrder[((i - 1) \div 3) + 1], ExtOrder[((i - 1) % 3) + 1])]
HasSuffix(name, suffix) ==
    \/ name.ext = suffix
    \/ suffix = ".meta" /\ name.ext = ".json.meta"
InDir(files, name) == name \in DOMAIN files
ReadDir(files) == SelectSeq(DirOrder, LAMBDA name : name \in DOMAIN files)
WriteFile(files, name, content) ==
    [n \in (DOMAIN files) \cup {name} |-> IF n = name THEN content ELSE files[n]]
Remove(files, name) == [n \in (DOMAIN files) \ {name} |-> files[n]]

\* Go map assignment and delete on c.memory
MapPutNothing(mem, hash, entry) == mem

MapPut(mem, hash, entry) ==
    [h \in (DOMAIN mem) \cup {hash} |-> IF h = hash THEN entry ELSE mem[h]]
MapDeleteNothing(mem, hash) == mem

MapDelete(mem, hash) == [h \in (DOMAIN mem) \ {hash} |-> mem[h]]

NoProc == 0
NewCache(dir) ==
    [dir |-> dir, ttl |-> TTL, mu |-> [writer |-> NoProc, readers |-> {}], memory |-> << >>]

\* one call in progress: its arguments, its position and its locals
NewCall(id, op, key, val) ==
    [id |-> id, op |-> op, key |-> key, val |-> val, pc |-> "start",
     ok |-> FALSE, data |-> "", expiresAt |-> 0, now |-> 0, pruned |-> 0,
     entries |-> << >>, err |-> "nil", writeErr |-> "none"]

RLock(c, id)   == [c EXCEPT !.mu.readers = @ \cup {id}]
RUnlock(c, id) == [c EXCEPT !.mu.readers = @ \ {id}]
Lock(c, id)    == [c EXCEPT !.mu.writer = id]
Unlock(c)      == [c EXCEPT !.mu.writer = NoProc]

After(c, files, p) == [c |-> c, files |-> files, p |-> p]

\* Cache.Get, one step; t is the value of time.Now()
GetStep(c, files, p, t) ==
    LET hash == hashKey(p.key) IN
    CASE p.pc = "start" ->
           IF hash \in DOMAIN c.memory /\ t < c.memory[hash].expiresAt
           THEN After(RLock(c, p.id), files,
                      [p EXCEPT !.pc = "runlock_hit", !.data = c.memory[hash].data, !.ok = TRUE])
           ELSE After(RLock(c, p.id), files, [p EXCEPT !.pc = "runlock_miss"])
      [] p.pc = "runlock_hit" -> After(RUnlock(c, p.id), files, [p EXCEPT !.pc = "done"])
      [] p.pc = "runlock_miss" ->
           After(RUnlock(c, p.id), files,
                 [p EXCEPT !.pc = IF c.dir # "" THEN "read_meta" ELSE "done"])
      [] p.pc = "read_meta" ->
           IF ~InDir(files, File(hash, ".meta"))
           THEN After(c, files, [p EXCEPT !.pc = "done"])
           ELSE IF t > files[File(hash, ".meta")].ExpiresAt
                THEN After(c, files, [p EXCEPT !.pc = "remove_meta"])
                ELSE After(c, files, [p EXCEPT !.pc = "read_data"])
      [] p.pc = "remove_meta" ->
           After(c, Remove(files, File(hash, ".meta")), [p EXCEPT !.pc = "remove_data"])
      [] p.pc = "remove_data" ->
           After(c, Remove(files, File(hash, ".json")), [p EXCEPT !.pc = "done"])
      [] p.pc = "read_data" ->
           IF ~InDir(files, File(hash, ".json"))
           THEN After(c, files, [p EXCEPT !.pc = "done"])
           ELSE After(c, files, [p EXCEPT !.pc = "populate", !.data = files[File(hash, ".json")]])
      [] p.pc = "populate" ->
           After([Lock(c, p.id) EXCEPT !.memory =
                      MapPut(@, hash, [data |-> p.data, expiresAt |-> t + c.ttl])],
                 files, [p EXCEPT !.pc = "unlock"])
      [] p.pc = "unlock" -> After(Unlock(c), files, [p EXCEPT !.pc = "done", !.ok = TRUE])

\* what os.WriteFile does in setToFile: p.writeErr names the file, if any,
\* whose write fails in this call
WriteErrs == {"none", "meta", "data"}

\* Set when setToFile has returned an error
WriteFailed(c, files, p) ==
    After(c, files, [p EXCEPT !.pc = "done", !.err = "write failed"])

\* Cache.Set, one step
SetStep(c, files, p, t) ==
    LET hash == hashKey(p.key) IN
    CASE p.pc = "start" -> After(c, files, [p EXCEPT !.pc = "lock", !.expiresAt = t + c.ttl])
      [] p.pc = "lock" ->
           After([Lock(c, p.id) EXCEPT !.memory =
                      MapPut(@, hash, [data |-> p.val, expiresAt |-> p.expiresAt])],
                 files, [p EXCEPT !.pc = "unlock"])
      [] p.pc = "unlock" ->
           After(Unlock(c), files, [p EXCEPT !.pc = IF c.dir # "" THEN "write_meta" ELSE "done"])
      [] p.pc = "write_meta" ->
           IF p.writeErr = "meta" THEN WriteFailed(c, files, p)
           ELSE After(c, WriteFile(files, File(hash, ".meta"), [ExpiresAt |-> p.expiresAt]),
                      [p EXCEPT !.pc = "write_data"])
      [] p.pc = "write_data" ->
           IF p.writeErr = "data" THEN WriteFailed(c, files, p)
           ELSE After(c, WriteFile(files, File(hash, ".json"), p.val),
                      [p EXCEPT !.pc = "done"])

\* Cache.Delete, one step; the second os.Remove names "<hash>.json.meta"
DeleteStep(c, files, p, t) ==
    LET hash == hashKey(p.key) IN
    CASE p.pc = "start" ->
           After([Lock(c, p.id) EXCEPT !.memory = MapDelete(@, hash)], files,
                 [p EXCEPT !.pc = "unlock"])
      [] p.pc = "unlock" ->
           After(Unlock(c), files, [p EXCEPT !.pc = IF c.dir # "" THEN "remove_data" ELSE "done"])
      [] p.pc = "remove_data" ->
           After(c, Remove(files, File(hash, ".json")), [p EXCEPT !.pc = "remove_meta"])
      [] p.pc = "remove_meta" ->
           After(c, Remove(files, File(hash, ".json.meta")), [p EXCEPT !.pc = "done"])

\* Cache.Clear, one step
ClearStep(c, files, p, t) ==
    CASE p.pc = "start" ->
           After([Lock(c, p.id) EXCEPT !.memory = << >>], files, [p EXCEPT !.pc = "unlock"])
      [] p.pc = "unlock" ->
           After(Unlock(c), files, [p EXCEPT !.pc = IF c.dir # "" THEN "read_dir" ELSE "done"])
      [] p.pc = "read_dir" ->
           After(c, files, [p EXCEPT !.pc = "entry", !.entries = ReadDir(files)])
      [] p.pc = "entry" ->
           IF p.entries = << >>
           THEN After(c, files, [p EXCEPT !.pc = "done"])
           ELSE After(c,
                      IF HasSuffix(Head(p.entries), ".json") \/ HasSuffix(Head(p.entries), ".meta")
                      THEN Remove(files, Head(p.entries)) ELSE files,
                      [p EXCEPT !.entries = Tail(@)])

\* the memory sweep of Prune: the entries with now.After(entry.expiresAt)
ExpiredInMemory(mem, now) == {h \in DOMAIN mem : now > mem[h].expiresAt}

\* Cache.Prune, one step
PruneStep(c, files, p, t) ==
    CASE p.pc = "start" ->
           After([Lock(c, p.id) EXCEPT !.memory =
                      [h \in (DOMAIN @) \ ExpiredInMemory(@, t) |-> @[h]]],
                 files,
                 [p EXCEPT !.pc = "unlock", !.now = t,
                           !.pruned = Cardinality(ExpiredInMemory(c.memory, t))])
      [] p.pc = "unlock" ->
           After(Unlock(c), files, [p EXCEPT !.pc = IF c.dir # "" THEN "read_dir" ELSE "done"])
      [] p.pc = "read_dir" ->
           After(c, files, [p EXCEPT !.pc = "entry", !.entries = ReadDir(files)])
      [] p.pc = "entry" ->
           IF p.entries = << >>
           THEN After(c, files, [p EXCEPT !.pc = "done"])
           ELSE IF /\ HasSuffix(Head(p.entries), ".meta")
                   /\ InDir(files, Head(p.entries))
                   /\ p.now > files[Head(p.entries)].ExpiresAt
                THEN After(c, files, [p EXCEPT !.pc = "remove_meta"])
                ELSE After(c, files, [p EXCEPT !.entries = Tail(@)])
      [] p.pc = "remove_meta" ->
           After(c, Remove(files, Head(p.entries)), [p EXCEPT !.pc = "remove_data"])
      [] p.pc = "remove_data" ->
           After(c, Remove(files, File(Head(p.entries).hash, ".json")),
                 [p EXCEPT !.pc = "entry", !.entries = Tail(@), !.pruned = @ + 1])

Step(c, files, p, t) ==
    CASE p.op = "Get"    -> GetStep(c, files, p, t)
      [] p.op = "Set"    -> SetStep(c, files, p, t)
      [] p.op = "Delete" -> DeleteStep(c, files, p, t)
      [] p.op = "Clear"  -> ClearStep(c, files, p, t)
      [] p.op = "Prune"  -> PruneStep(c, files, p, t)

\* a step that takes the mutex waits until the mutex allows it
NeedsRLock(p) == p.op = "Get" /\ p.pc = "start"
NeedsLock(p) ==
    \/ p.op = "Get" /\ p.pc = "populate"
    \/ p.op = "Set" /\ p.pc = "lock"
    \/ p.op \in {"Delete", "Clear", "Prune"} /\ p.pc = "start"
CanStep(c, p) ==
    /\ p.pc # "done"
    /\ NeedsRLock(p) => c.mu.writer = NoProc
    /\ NeedsLock(p) => c.mu.writer = NoProc /\ c.mu.readers = {}

\* a call run from entry to return with no other caller, at clock value t
RECURSIVE Run(_, _, _, _)
Run(c, files, p, t) ==
    IF p.pc = "done" THEN After(c, files, p)
    ELSE Only({Run(s.c, s.files, s.p, t) : s \in {Step(c, files, p, t)}})

Call(c, files, op, key, val, t) == Run(c, files, NewCall(1, op, key, val), t)

\* a Set call whose file writes have the outcome writeErr
SetCall(c, files, key, val, writeErr, t) ==
    Run(c, files, [NewCall(1, "Set", key, val) EXCEPT !.writeErr = writeErr], t)

\* json.Marshal / json.Unmarshal of the string type that WithCache is used at
Results == {"x", "y"}
Marshal(result) == IF result = "x" THEN "\"x\"" ELSE "\"y\""
UnmarshalFails(data) == [err |-> "invalid character", result |-> ""]

Unmarshal(data) ==
    IF data = "\"x\"" THEN [err |-> "nil", result |-> "x"]
    ELSE IF data = "\"y\"" THEN [err |-> "nil", result |-> "y"]
    ELSE [err |-> "invalid character", result |-> ""]

\* what one invocation of the fetch argument returns
FetchOutcomes == {[err |-> "nil", result |-> r] : r \in Results}
                 \cup {[err |-> "fetch failed", result |-> ""]}

\* WithCache(cache, key, fetch); fetch is the outcome fetch() has if invoked,
\* writeErr the outcome of the file writes of cache.Set if invoked
WithCache(c, files, key, fetch, writeErr, t) ==
    Only({
       IF got.p.ok /\ Unmarshal(got.p.data).err = "nil"
       THEN [c |-> got.c, files |-> got.files, result |-> Unmarshal(got.p.data).result,
             err |-> "nil", fetched |-> 0]
       ELSE IF fetch.err # "nil"
            THEN [c |-> got.c, files |-> got.files, result |-> "", err |-> fetch.err, fetched |-> 1]
            ELSE Only({[c |-> set.c, files |-> set.files, result |-> fetch.result,
                        err |-> "nil", fetched |-> 1] :
                       set \in {SetCall(got.c, got.files, key, Marshal(fetch.result),
                                        writeErr, t)}}) :
       got \in {Call(c, files, "Get", key, "", t)}})

\* what io.ReadAll(r) returns
ReadOutcomes == {[err |-> "nil", data |-> d] : d \in Bytes}
                \cup {[err |-> "read failed", data |-> ""]}

\* StreamToCache(cache, key, r); read is the outcome of io.ReadAll(r),
\* writeErr the outcome of the file writes of cache.Set if invoked.  data is
\* the returned slice ("" for nil), err the returned error.
StreamToCache(c, files, key, read, writeErr, t) ==
    IF read.err # "nil"
    THEN [c |-> c, files |-> files, data |-> "", err |-> read.err, stored |-> FALSE]
    ELSE Only({[c |-> set.c, files |-> set.files, data |-> read.data, err |-> set.p.err,
                stored |-> TRUE] :
               set \in {SetCall(c, files, key, read.data, writeErr, t)}})


\* ---------------------------------------------------------------- state
VARIABLES
    graphs,     \* heap of graph objects; graphs[1] is the graph under construction
    filtered,   \* handle returned by the last FilterByOrg / FilterByLanguage, Nil before
    snapshot,   \* value returned by the last Snapshot, NoSnapshot before
    result,     \* value returned by the last read-only query, NoResult otherwise
    adds,       \* AddModule calls so far
    cache,      \* the Cache object: dir, ttl, mu, memory
    files,      \* the files of the cache directory
    now,        \* the clock read by time.Now()
    ret,        \* what the last cache call returned, NoRet after a tick
    calls,      \* cache calls so far
    fetches,    \* invocations of the fetch argument of WithCache so far
    hist,       \* per key, the last Set and whether a Delete or Clear followed it
    procs,      \* the calls that concurrent callers have in progress
    builder     \* the Builder and the position of its Build call

graphVars == <<graphs, filtered, snapshot, result, adds>>
cacheVars == <<cache, files, now, ret, calls, fetches, hist, procs>>
vars == <<graphs, filtered, snapshot, result, adds,
          cache, files, now, ret, calls, fetches, hist, procs, builder>>

Nil        == 0
NoSnapshot == [Portfolio |-> ZeroPortfolio, Timestamp |-> "none", Modules |-> << >>]
NoResult   == [op |-> "none"]

graph == graphs[1]

\* ---------------------------------------------------------------- builder
\* A string that contains "/" is written as the sequence of its segments:
\* "github.com/grokify" is <<"github.com", "grokify">>, "" is <<"">>.
\* In the builder the module ids stand for these Go module paths.
EmptyString == <<"">>
GoModulePath(id) ==
    IF id % 3 = 1 THEN <<"github.com", "grokify", "mogo">>
    ELSE IF id % 3 = 2 THEN <<"github.com", "agentplexus", "core">>
    ELSE <<"gitlab.com", "grokify", "lib">>

\* ExtractOrg: the first two segments of a Go module path, the scope of a
\* scoped npm package
ExtractOrg(lang, name) ==
    IF lang = LanguageGo
    THEN (IF Len(name) >= 2 THEN <<name[1], name[2]>> ELSE name)
    ELSE IF lang = LanguageTypeScript /\ Len(name) >= 2 /\ name[1] \in {"@agentplexus"}
         THEN <<name[1]>>
         ELSE EmptyString

extractOwner(org) ==
    IF Len(org) >= 2 /\ org[1] = "github.com" THEN Tail(org)
    ELSE IF Len(org) >= 2 THEN <<org[2]>>
    ELSE org

\* strings.EqualFold against "go" for the language entries that occur
containsLanguage(langs, target) ==
    \E i \in DOMAIN langs :
        IF target = "go" THEN langs[i] \in {"go", "Go", "GO"} ELSE langs[i] = target

\* the repositories of the hosting service, page by page
Repository(owner, name, archived, fork) ==
    [owner |-> owner, name |-> name, archived |-> archived, fork |-> fork,
     defaultBranch |-> "main"]
RepoPages(owner) ==
    IF owner = <<"grokify">>
    THEN << <<Repository("grokify", "mogo", FALSE, FALSE)>>,
            <<Repository("grokify", "gogithub", FALSE, FALSE)>> >>
    ELSE IF owner = <<"agentplexus">>
    THEN << <<Repository("agentplexus", "core", FALSE, FALSE),
              Repository("agentplexus", "archive", TRUE, FALSE)>> >>
    ELSE << << >> >>

\* a successful listing call for the page opts.Page (0 is the first page)
ListPage(owner, page) ==
    LET p == IF page = 0 THEN 1 ELSE page
    IN [repos |-> RepoPages(owner)[p],
        NextPage |-> IF p < Len(RepoPages(owner)) THEN p + 1 ELSE 0]

\* what go.mod files declare
ModuleVersion(path, version, indirect) ==
    [Path |-> path, Version |-> version, Indirect |-> indirect]
GoModInfos ==
    {[Module |-> id, Require |-> req] :
        id \in ModuleIds,
        req \in {<< >>,
                  <<ModuleVersion(1, "v1.0.0", FALSE), ModuleVersion(2, "v1.0.0", TRUE)>>,
                  <<ModuleVersion(3, "v1.0.0", FALSE)>>}}

DirectDependencies(info) == SelectSeq(info.Require, LAMBDA req : ~req.Indirect)

IsManagedPath(path, managedOrgs) ==
    (<<"github.com">> \o extractOwner(ExtractOrg(LanguageGo, path))) \in managedOrgs

createModule(org, modInfo, managedOrgs) ==
    LET direct == DirectDependencies(modInfo)
    IN [ID           |-> modInfo.Module,
        Language     |-> LanguageGo,
        Org          |-> org,
        IsManaged    |-> IsManagedPath(GoModulePath(modInfo.Module), managedOrgs),
        Dependencies |->
            [i \in DOMAIN direct |->
                [ID        |-> direct[i].Path,
                 Version   |-> direct[i].Version,
                 IsManaged |-> IsManagedPath(GoModulePath(direct[i].Path), managedOrgs)]]]

\* the portfolios passed to Build
BuildOrgs == {<<"github.com", "grokify">>, <<"grokify">>,
              <<"github.com", "agentplexus">>, EmptyString}
BuildPortfolios ==
    {[Name |-> "test", Orgs |-> orgs, Languages |-> langs] :
        orgs \in SeqsUpTo(BuildOrgs, MaxOrgs) \ {<< >>},
        langs \in {<<"Go">>, << >>, <<"typescript">>}}

\* the Builder between two calls of Build; ret is the returned graph pointer,
\* << >> for nil and <<g>> for a pointer to g.  mode is "plain" for a Builder
\* without a cache, "gomod" for a Builder created with BuilderConfig.Cache,
\* "graph" for the Builder inside a CachedBuilder; fromCache tells that the
\* returned graph was rebuilt from the cached snapshot, writeFailed that a
\* file write of a cache.Set of this Build failed.
IdleBuilder ==
    [pc |-> "idle", portfolio |-> ZeroPortfolio, graph |-> NewGraph, managedOrgs |-> {},
     org |-> 0, owner |-> EmptyString, page |-> 0, allRepos |-> << >>, repo |-> 0,
     ret |-> << >>, err |-> "nil", listFailed |-> 0, parsed |-> {}, skipped |-> {},
     mode |-> "plain", fromCache |-> FALSE, writeFailed |-> FALSE]

\* Build entry: the graph is created and the account set is collected
BuildStart(b, portfolio) ==
    [IdleBuilder EXCEPT
        !.pc = "org", !.portfolio = portfolio,
        !.graph = [NewGraph EXCEPT !.portfolio = portfolio],
        !.managedOrgs = Range(portfolio.Orgs), !.org = 1]

\* head of the loop over portfolio.Orgs
BuildOrg(b) ==
    IF b.org > Len(b.portfolio.Orgs)
    THEN [b EXCEPT !.pc = "done", !.ret = <<b.graph>>]
    ELSE LET owner == extractOwner(b.portfolio.Orgs[b.org])
         IN IF owner = EmptyString
            THEN [b EXCEPT !.org = @ + 1]
            ELSE [b EXCEPT !.pc = "list", !.owner = owner, !.page = 0, !.allRepos = << >>]

BuildListErrorContinue(b) == [b EXCEPT !.org = @ + 1, !.pc = "org"]

\* Build when listRepos has returned an error
BuildListError(b) ==
    [b EXCEPT !.pc = "done", !.ret = << >>, !.err = "failed to list repos"]

SkipRepoAbort(b) == [b EXCEPT !.pc = "done", !.ret = << >>, !.err = "go.mod not found"]

\* Build when fetchGoMod or ParseGoMod has returned an error
SkipRepo(b) == [b EXCEPT !.repo = @ + 1]

\* one iteration of the loop of listRepos: ListByUser, on its error
\* ListByOrg with fresh options, on that error too the listing fails
BuildList(b, userErr, orgErr) ==
    IF userErr /\ orgErr THEN BuildListError([b EXCEPT !.listFailed = b.org])
    ELSE LET resp == IF userErr THEN ListPage(b.owner, 0) ELSE ListPage(b.owner, b.page)
             kept == SelectSeq(resp.repos, LAMBDA r : ~r.archived /\ ~r.fork)
         IN IF resp.NextPage = 0
            THEN [b EXCEPT !.pc = "repo", !.allRepos = @ \o kept, !.repo = 1]
            ELSE [b EXCEPT !.allRepos = @ \o kept, !.page = resp.NextPage]

\* one iteration of the loop over the listed repositories; outcome is what
\* fetchGoMod and ParseGoMod return for the repository
BuildRepo(b, outcome) ==
    IF b.repo > Len(b.allRepos)
    THEN [b EXCEPT !.pc = "org", !.org = @ + 1]
    ELSE IF ~(containsLanguage(b.portfolio.Languages, "go") \/ Len(b.portfolio.Languages) = 0)
    THEN [b EXCEPT !.repo = @ + 1]
    ELSE IF outcome.err # "nil"
    THEN SkipRepo([b EXCEPT !.skipped = @ \cup {b.allRepos[b.repo].name}])
    ELSE [b EXCEPT !.repo = @ + 1,
                   !.graph = AddModule(@, createModule(b.portfolio.Orgs[b.org],
                                                      outcome.info, b.managedOrgs)),
                   !.parsed = @ \cup {[repo |-> b.allRepos[b.repo].name,
                                       org |-> b.portfolio.Orgs[b.org],
                                       module |-> outcome.info.Module]}]

RepoOutcomes ==
    {[err |-> "nil", info |-> info] : info \in GoModInfos}
    \cup {[err |-> e, info |-> [Module |-> 0, Require |-> << >>]] :
             e \in {"go.mod not found", "token too long"}}

\* ---------------------------------------------------------------- builder with a cache
\* the go.mod files of the repositories, by repository name
GoModMogo ==
    << <<"module", PathWord(1)>>, <<"go", "1.21">>,
       <<"require", PathWord(2), "v1.0.0">> >>
GoModCore ==
    << <<"module", PathWord(2)>>, <<"require", "(">>,
       <<PathWord(1), "v1.0.0", "//", "indirect">>, <<")">> >>
GoModFiles == {GoModMogo, GoModCore}
RepoGoMod(name) == IF name = "mogo" THEN GoModMogo ELSE GoModCore

\* what Repositories.GetContents and content.GetContent return for the
\* go.mod of the repository name
ContentOutcomes(name) ==
    {[err |-> "nil", data |-> RepoGoMod(name)],
     [err |-> "go.mod not found", data |-> << >>]}

RECURSIVE Join(_, _)
\* strings.Join; also the string that a sequence of path segments stands for
Join(elems, sep) ==
    IF elems = << >> THEN ""
    ELSE IF Len(elems) = 1 THEN elems[1]
    ELSE elems[1] \o sep \o Join(Tail(elems), sep)

\* fmt.Sprintf("gomod:%s/%s:%s", owner, repo, branch)
gomodCacheKey(owner, repo, branch) ==
    "gomod:" \o Join(owner, "/") \o "/" \o repo \o ":" \o branch

\* fetchGoMod of a Builder whose cache field is set (useCache) or nil;
\* contents is what the hosting service returns if asked, writeErr the
\* outcome of the file writes of cache.Set if called
fetchGoMod(c, fs, useCache, owner, repo, branch, contents, writeErr, t) ==
    Only({
       IF useCache /\ got.p.ok
       THEN [c |-> got.c, files |-> got.files, data |-> got.p.data, err |-> "nil",
             setErr |-> "nil"]
       ELSE IF contents.err # "nil"
       THEN [c |-> got.c, files |-> got.files, data |-> << >>, err |-> contents.err,
             setErr |-> "nil"]
       ELSE IF useCache
       THEN Only({[c |-> set.c, files |-> set.files, data |-> contents.data,
                   err |-> "nil", setErr |-> set.p.err] :
                  set \in {SetCall(got.c, got.files, gomodCacheKey(owner, repo, branch),
                                   contents.data, writeErr, t)}})
       ELSE [c |-> got.c, files |-> got.files, data |-> contents.data, err |-> "nil",
             setErr |-> "nil"] :
       got \in {IF useCache
                THEN Call(c, fs, "Get", gomodCacheKey(owner, repo, branch), "", t)
                ELSE After(c, fs, NewCall(1, "Get", gomodCacheKey(owner, repo, branch), ""))}})

\* the module id whose path is the word of a go.mod file
ModuleIdOf(word) == CHOOSE id \in ModuleIds : PathWord(id) = word

\* the GoModInfo of the parser with the module paths written as module ids
ParsedInfo(info) ==
    [Module  |-> ModuleIdOf(info.Module[1]),
     Require |-> [i \in DOMAIN info.Require |->
                     ModuleVersion(ModuleIdOf(info.Require[i].Path),
                                   info.Require[i].Version, info.Require[i].Indirect)]]

\* the name of the repository that the loop over the listed repositories is
\* at, "" after the last one
RepoName(b) == IF b.repo \in DOMAIN b.allRepos THEN b.allRepos[b.repo].name ELSE ""

\* what fetchGoMod and ParseGoMod make of one repository: data and err are
\* the results of fetchGoMod
NoGoMod == [err |-> "go.mod not found", info |-> [Module |-> 0, Require |-> << >>]]
RepoOutcome(data, err) ==
    IF err # "nil" THEN [NoGoMod EXCEPT !.err = err]
    ELSE Only({IF parsed.err # "nil" THEN [NoGoMod EXCEPT !.err = parsed.err]
               ELSE [err |-> "nil", info |-> ParsedInfo(parsed.info)] :
               parsed \in {ParseGoMod(data)}})

\* one iteration of the loop over the listed repositories with fetchGoMod
\* and ParseGoMod carried out
BuildRepoCached(b, c, fs, contents, writeErr, t) ==
    IF \/ b.repo > Len(b.allRepos)
       \/ ~(containsLanguage(b.portfolio.Languages, "go") \/ Len(b.portfolio.Languages) = 0)
    THEN [b |-> BuildRepo(b, NoGoMod), c |-> c, files |-> fs]
    ELSE Only({Only({[b |-> [BuildRepo(b, outcome) EXCEPT
                                !.writeFailed = @ \/ f.setErr # "nil"],
                      c |-> f.c, files |-> f.files] :
                     outcome \in {RepoOutcome(f.data, f.err)}}) :
               f \in {fetchGoMod(c, fs, b.mode = "gomod", b.owner,
                                 b.allRepos[b.repo].name,
                                 b.allRepos[b.repo].defaultBranch,
                                 contents, writeErr, t)}})

\* fmt.Sprintf("graph:%s:%s", portfolio.Name, strings.Join(portfolio.Orgs, ","))
graphCacheKey(portfolio) ==
    "graph:" \o portfolio.Name \o ":"
        \o Join([i \in DOMAIN portfolio.Orgs |-> Join(portfolio.Orgs[i], "/")], ",")

\* json.Marshal and json.Unmarshal of a GraphSnapshot
MarshalSnapshot(s) ==
    [json |-> "GraphSnapshot", portfolio |-> s.Portfolio, timestamp |-> s.Timestamp,
     modules |-> s.Modules]
UnmarshalSnapshot(data) ==
    [err |-> "nil",
     snapshot |-> [Portfolio |-> data.portfolio, Timestamp |-> data.timestamp,
                   Modules |-> data.modules]]

\* CachedBuilder.Build up to the call of cb.builder.Build: the lookup of the
\* cached graph
CachedLookup(c, fs, portfolio, t) ==
    Only({IF got.p.ok
          THEN [c |-> got.c, files |-> got.files, hit |-> TRUE,
                snapshot |-> UnmarshalSnapshot(got.p.data).snapshot]
          ELSE [c |-> got.c, files |-> got.files, hit |-> FALSE, snapshot |-> NoSnapshot] :
          got \in {Call(c, fs, "Get", graphCacheKey(portfolio), "", t)}})

\* CachedBuilder.Build when the cached graph was found
CachedHit(portfolio, cached, ord) ==
    [IdleBuilder EXCEPT !.pc = "returned", !.mode = "graph", !.portfolio = portfolio,
                        !.fromCache = TRUE, !.ret = <<BuildFromSnapshot(cached, ord)>>]

\* the return of Build: of Builder.Build itself, or of CachedBuilder.Build
\* after cb.builder.Build has returned
BuildReturn(b, c, fs, writeErr, t) ==
    IF b.mode = "graph" /\ b.err = "nil"
    THEN Only({[b |-> [b EXCEPT !.pc = "returned",
                                !.writeFailed = @ \/ set.p.err # "nil"],
                c |-> set.c, files |-> set.files] :
               set \in {SetCall(c, fs, graphCacheKey(b.portfolio),
                                MarshalSnapshot(Snapshot(b.ret[1])), writeErr, t)}})
    ELSE [b |-> [b EXCEPT !.pc = "returned"], c |-> c, files |-> fs]

\* the portfolios passed to a Builder with a cache and to a CachedBuilder
CachedPortfolios ==
    {[Name |-> "test", Orgs |-> <<org>>, Languages |-> langs] :
        org \in {<<"github.com", "grokify">>, <<"github.com", "agentplexus">>},
        langs \in {<<"Go">>, <<"typescript">>}}


CacheDir == "/tmp/versionconductor-cache"

NoRet == [op |-> "none"]

\* history of the calls made on each key: whether the key was never set, was
\* set and not deleted since, or was deleted or cleared after its last Set;
\* the value and the write-time expiration of its last Set
NoHist == [k \in Keys |-> [state |-> "never", val |-> "", expiresAt |-> 0]]
HistSet(h, key, val, t) == [h EXCEPT ![key] = [state |-> "set", val |-> val, expiresAt |-> t + TTL]]
HistDelete(h, key) ==
    [h EXCEPT ![key].state = IF @ = "never" THEN "never" ELSE "deleted"]

InitGraph ==
    /\ graphs = <<NewGraph>>
    /\ filtered = Nil
    /\ snapshot = NoSnapshot
    /\ result = NoResult
    /\ adds = 0

\* NewCache(cfg) for one of the given directories ("" is a memory-only cache)
InitCacheVars(dirs) ==
    /\ cache \in {NewCache(dir) : dir \in dirs}
    /\ files = << >>
    /\ now = 0
    /\ ret = NoRet
    /\ calls = 0
    /\ fetches = 0
    /\ hist = NoHist
    /\ procs = << >>
    /\ builder = IdleBuilder

Init ==
    /\ InitGraph
    /\ InitCacheVars({""})

AddModuleStep(bound, edgeBound, h, m) ==
    /\ adds < bound
    /\ SumLen(graphs[h].edges, ModuleIds) + Len(m.Dependencies) <= edgeBound
    /\ graphs' = [graphs EXCEPT ![h] = AddModule(graphs[h], m)]
    /\ adds' = adds + 1
    /\ result' = NoResult
    /\ UNCHANGED <<filtered, snapshot>>
    /\ UNCHANGED <<cacheVars, builder>>

\* g.AddModule(m) on the graph under construction
DoAddModule == \E m \in ModuleInputs : AddModuleStep(MaxAdds, MaxEdges, 1, m)

Next == DoAddModule

Spec == Init /\ [][Next]_vars

\* ---------------------------------------------------------------- SpecQuery
\* AddModule on the original or on a filtered graph
QAddModule == \E h \in DOMAIN graphs, m \in ModuleInputs : AddModuleStep(MaxQueryAdds, MaxQueryEdges, h, m)

\* DependencyGraph.Build(ctx, portfolio)
DoBuild ==
    /\ \E p \in Portfolios : graphs' = [graphs EXCEPT ![1].portfolio = p]
    /\ graphs' # graphs
    /\ result' = NoResult
    /\ UNCHANGED <<filtered, snapshot, adds>>
    /\ UNCHANGED <<cacheVars, builder>>

DoFilterByOrg ==
    /\ filtered = Nil /\ snapshot = NoSnapshot
    /\ \E org \in Orgs :
         \E ord \in Orders({id \in DOMAIN graph.modules : graph.modules[id].Org = org}) :
            LET r == FilterByOrg(graphs, 1, org, ord)
            IN graphs' = r.graphs /\ filtered' = r.ret
    /\ result' = NoResult
    /\ UNCHANGED <<snapshot, adds>>
    /\ UNCHANGED <<cacheVars, builder>>

DoFilterByLanguage ==
    /\ filtered = Nil /\ snapshot = NoSnapshot
    /\ \E lang \in Languages :
         \E ord \in Orders({id \in DOMAIN graph.modules : graph.modules[id].Language = lang}) :
            LET r == FilterByLanguage(graphs, 1, lang, ord)
            IN graphs' = r.graphs /\ filtered' = r.ret
    /\ result' = NoResult
    /\ UNCHANGED <<snapshot, adds>>
    /\ UNCHANGED <<cacheVars, builder>>

DoSnapshot ==
    /\ filtered = Nil /\ snapshot = NoSnapshot
    /\ snapshot' = Snapshot(graph)
    /\ result' = NoResult
    /\ UNCHANGED <<graphs, filtered, adds>>
    /\ UNCHANGED <<cacheVars, builder>>

\* the read-only queries, called one after another; each returns a value and
\* assigns no field of g
DoQuery ==
    /\ result = NoResult
    /\ result' = [op           |-> "queries",
                  UpgradeOrder |-> UpgradeOrder(graph),
                  Stats        |-> Stats(graph),
                  Validate     |-> Validate(graph),
                  Dependents   |-> [id \in ModuleIds |-> Dependents(graph, id)],
                  Dependencies |-> [id \in ModuleIds |-> Dependencies(graph, id)],
                  StaleModules |-> [id \in ModuleIds |-> StaleModules(graph, id, "v1.0.0")]]
    /\ UNCHANGED <<graphs, filtered, snapshot, adds>>
    /\ UNCHANGED <<cacheVars, builder>>

NextQuery ==
    \/ QAddModule
    \/ DoBuild
    \/ DoFilterByOrg
    \/ DoFilterByLanguage
    \/ DoSnapshot
    \/ DoQuery

SpecQuery == Init /\ [][NextQuery]_vars

\* ---------------------------------------------------------------- vocabulary of the claims
OrderIds(o) == [i \in DOMAIN o.Modules |-> o.Modules[i].ID]

DepIds(m) == [i \in DOMAIN m.Dependencies |-> m.Dependencies[i].ID]

\* a depends on b by a's current dependency list
DependsOn(g, a, b) == a \in DOMAIN g.modules /\ b \in Range(DepIds(g.modules[a]))

\* the managed modules that a reaches over one or more managed-to-managed edges
RECURSIVE ReachIn(_, _, _)
ReachIn(g, S, n) ==
    IF n = 0 THEN S
    ELSE ReachIn(g, S \cup {b \in ManagedSet(g) : \E a \in S : DependsOn(g, a, b)}, n - 1)

Reaches(g, a) ==
    ReachIn(g, {b \in ManagedSet(g) : DependsOn(g, a, b)}, Cardinality(ManagedSet(g)))

OnCycle(g) == {a \in ManagedSet(g) : a \in Reaches(g, a)}

Acyclic(g) == OnCycle(g) = {}

Pos(ids, id) == Min({i \in DOMAIN ids : ids[i] = id})

\* the managed modules not yet emitted whose managed dependencies are all emitted
Ready(g, done) ==
    {a \in ManagedSet(g) \ done :
        \A b \in ManagedSet(g) : DependsOn(g, a, b) => b \in done}

Prefix(ids, k) == {ids[i] : i \in 1..k}

\* ---------------------------------------------------------------- SpecCache
\* One caller at a time: every call runs from entry to return before the
\* next one starts, and the clock ticks between calls.  The file writes of
\* Set succeed here; SpecCachedBuild has the failing ones.
CacheCall(op, key, val) ==
    /\ calls < MaxCalls
    /\ LET r == Call(cache, files, op, key, val, now)
       IN /\ cache' = r.c
          /\ files' = r.files
          /\ ret' = [op |-> op, key |-> key, ok |-> r.p.ok, data |-> r.p.data,
                     pruned |-> r.p.pruned]
    /\ calls' = calls + 1
    /\ UNCHANGED <<now, fetches, procs>>
    /\ UNCHANGED <<graphVars, builder>>

DoSet ==
    \E key \in Keys, val \in Bytes :
        /\ CacheCall("Set", key, val)
        /\ hist' = HistSet(hist, key, val, now)

DoGet == \E key \in Keys : CacheCall("Get", key, "") /\ UNCHANGED hist

DoDelete == \E key \in Keys : CacheCall("Delete", key, "") /\ hist' = HistDelete(hist, key)

DoClear ==
    /\ CacheCall("Clear", "", "")
    /\ hist' = [k \in Keys |-> HistDelete(hist, k)[k]]

DoPrune == CacheCall("Prune", "", "") /\ UNCHANGED hist

DoWithCache ==
    \E key \in Keys, fetch \in FetchOutcomes :
        /\ calls < MaxCalls
        /\ LET r == WithCache(cache, files, key, fetch, "none", now)
           IN /\ cache' = r.c
              /\ files' = r.files
              /\ ret' = [op |-> "WithCache", key |-> key, result |-> r.result,
                         err |-> r.err, fetched |-> r.fetched, fetch |-> fetch]
              /\ fetches' = fetches + r.fetched
              /\ hist' = IF r.fetched = 1 /\ r.err = "nil"
                         THEN HistSet(hist, key, Marshal(r.result), now) ELSE hist
        /\ calls' = calls + 1
        /\ UNCHANGED <<now, procs>>
        /\ UNCHANGED <<graphVars, builder>>

\* the clock advances between two calls
Tick ==
    /\ now < MaxTime
    /\ now' = now + 1
    /\ ret' = NoRet
    /\ UNCHANGED <<cache, files, calls, fetches, hist, procs>>
    /\ UNCHANGED <<graphVars, builder>>

\* NewCache on the directory of a cache that has a durable tier: the
\* in-process tier starts empty, the files are those left in the directory
Restart ==
    /\ cache.dir # ""
    /\ cache.memory # << >>
    /\ cache' = NewCache(cache.dir)
    /\ ret' = NoRet
    /\ UNCHANGED <<files, now, calls, fetches, hist, procs>>
    /\ UNCHANGED <<graphVars, builder>>

InitCache ==
    /\ InitGraph
    /\ InitCacheVars({"", CacheDir})

NextCache ==
    \/ DoSet
    \/ DoGet
    \/ DoDelete
    \/ DoClear
    \/ DoPrune
    \/ DoWithCache
    \/ Tick
    \/ Restart

SpecCache == InitCache /\ [][NextCache]_vars

\* ---------------------------------------------------------------- SpecConc
\* Concurrent callers of one cache with a durable tier.  A caller takes one
\* step of its call at a time; the steps of different callers interleave,
\* and a step that takes the mutex waits for it.  In this specification
\* hist is the set of the writes made by the Set calls.
ProcIds == 1..NumProcs

Idle(id) == [NewCall(id, "none", "", "") EXCEPT !.pc = "done"]

ConcUnchanged == UNCHANGED <<ret, fetches, builder>> /\ UNCHANGED graphVars

\* a caller enters Get, Set, Delete, Clear or Prune
Begin(id) ==
    /\ procs[id].pc = "done"
    /\ calls < MaxConcCalls
    /\ \E op \in {"Get", "Set", "Delete", "Clear", "Prune"}, key \in Keys, val \in Bytes :
          /\ op \in {"Clear", "Prune"} => key = "k1"
          /\ op # "Set" => val = "raw"
          /\ procs' = [procs EXCEPT ![id] = NewCall(id, op, key, val)]
    /\ calls' = calls + 1
    /\ UNCHANGED <<cache, files, now, hist>>
    /\ ConcUnchanged

\* a caller executes the next step of its call
ProcStep(id) ==
    /\ CanStep(cache, procs[id])
    /\ LET s == Step(cache, files, procs[id], now)
       IN /\ cache' = s.c
          /\ files' = s.files
          /\ procs' = [procs EXCEPT ![id] = s.p]
          /\ hist' = IF procs[id].op = "Set" /\ procs[id].pc = "start"
                     THEN hist \cup {[key |-> s.p.key, val |-> s.p.val,
                                      expiresAt |-> s.p.expiresAt]}
                     ELSE hist
    /\ UNCHANGED <<now, calls>>
    /\ ConcUnchanged

ConcTick ==
    /\ now < MaxConcTime
    /\ now' = now + 1
    /\ UNCHANGED <<cache, files, calls, hist, procs>>
    /\ ConcUnchanged

InitConc ==
    /\ InitGraph
    /\ cache = NewCache(CacheDir)
    /\ files = << >>
    /\ now = 0
    /\ ret = NoRet
    /\ calls = 0
    /\ fetches = 0
    /\ hist = {}
    /\ procs = [id \in ProcIds |-> Idle(id)]
    /\ builder = IdleBuilder

DoBegin == \E id \in ProcIds : Begin(id)
DoProcStep == \E id \in ProcIds : ProcStep(id)

NextConc ==
    \/ DoBegin
    \/ DoProcStep
    \/ ConcTick

SpecConc == InitConc /\ [][NextConc]_vars

\* ---------------------------------------------------------------- SpecRace
\* Concurrent Get, Set and Delete calls for the key "k1" on a cache whose
\* directory holds an entry that Set("k1", "raw") wrote at time 0.  The
\* entry is also in the in-process tier, or the cache was created on the
\* directory afterwards; the clock stands at 0 or past the expiration.
\* In this specification hist records the calls: began is the sequence of
\* the calls in the order they were entered, clean tells that a Delete has
\* returned that no Set overlapped or followed, cand is the set of callers
\* inside such a Delete, late the set of callers whose call was entered
\* while clean held and with no Set entered since.
RaceHist(began, clean, cand, late) ==
    [began |-> began, clean |-> clean, cand |-> cand, late |-> late]

InitRace ==
    /\ InitGraph
    /\ LET written == Call(NewCache(CacheDir), << >>, "Set", "k1", "raw", 0)
       IN /\ files = written.files
          /\ cache \in {written.c, NewCache(CacheDir)}
    /\ now \in {0, TTL + 1}
    /\ ret = NoRet
    /\ calls = 0
    /\ fetches = 0
    /\ hist = RaceHist(<< >>, FALSE, {}, {})
    /\ procs = [id \in ProcIds |-> Idle(id)]
    /\ builder = IdleBuilder

InSet(id) == procs[id].op = "Set" /\ procs[id].pc # "done"

\* a caller enters Get, Set or Delete
RaceBegin(id) ==
    /\ procs[id].pc = "done"
    /\ calls < MaxRaceCalls
    /\ \E op \in {"Get", "Set", "Delete"}, val \in Bytes :
          /\ op # "Set" => val = "raw"
          /\ procs' = [procs EXCEPT ![id] = NewCall(id, op, "k1", val)]
          /\ hist' = RaceHist(
                Append(hist.began, [op |-> op, val |-> val]),
                IF op = "Set" THEN FALSE ELSE hist.clean,
                IF op = "Set" THEN {}
                ELSE IF op = "Delete" /\ ~\E other \in ProcIds : InSet(other)
                     THEN hist.cand \cup {id}
                     ELSE hist.cand \ {id},
                IF op = "Set" THEN {}
                ELSE IF op = "Get" /\ hist.clean THEN hist.late \cup {id}
                     ELSE hist.late \ {id})
    /\ calls' = calls + 1
    /\ UNCHANGED <<cache, files, now>>
    /\ ConcUnchanged

\* a caller executes the next step of its call
RaceStep(id) ==
    /\ CanStep(cache, procs[id])
    /\ LET s == Step(cache, files, procs[id], now)
       IN /\ cache' = s.c
          /\ files' = s.files
          /\ procs' = [procs EXCEPT ![id] = s.p]
          /\ hist' = IF s.p.op = "Delete" /\ s.p.pc = "done" /\ id \in hist.cand
                     THEN [hist EXCEPT !.clean = TRUE, !.cand = @ \ {id}]
                     ELSE hist
    /\ UNCHANGED <<now, calls>>
    /\ ConcUnchanged

DoRaceBegin == \E id \in ProcIds : RaceBegin(id)
DoRaceStep == \E id \in ProcIds : RaceStep(id)

NextRace ==
    \/ DoRaceBegin
    \/ DoRaceStep

SpecRace == InitRace /\ [][NextRace]_vars

\* ---------------------------------------------------------------- SpecBuild
\* One call of Builder.Build on a Builder without a cache; the hosting
\* service answers every listing and every manifest request with any of the
\* outcomes it can have.
DoBuildStart ==
    /\ builder.pc = "idle"
    /\ \E portfolio \in BuildPortfolios : builder' = BuildStart(builder, portfolio)
    /\ UNCHANGED <<graphVars, cacheVars>>

DoBuildOrg ==
    /\ builder.pc = "org"
    /\ builder' = BuildOrg(builder)
    /\ UNCHANGED <<graphVars, cacheVars>>

DoBuildList ==
    /\ builder.pc = "list"
    /\ Len(builder.allRepos) < MaxRepos
    /\ \E userErr \in BOOLEAN, orgErr \in BOOLEAN :
          builder' = BuildList(builder, userErr, orgErr)
    /\ UNCHANGED <<graphVars, cacheVars>>

DoBuildRepo ==
    /\ builder.pc = "repo"
    /\ \E outcome \in RepoOutcomes : builder' = BuildRepo(builder, outcome)
    /\ UNCHANGED <<graphVars, cacheVars>>

NextBuild ==
    \/ DoBuildStart
    \/ DoBuildOrg
    \/ DoBuildList
    \/ DoBuildRepo

SpecBuild == Init /\ [][NextBuild]_vars

\* ---------------------------------------------------------------- SpecCachedBuild
\* One caller of a cache with a durable tier whose file writes can fail:
\* Set, Get and WithCache calls, Build calls of a Builder that was created
\* with this cache, and Build calls of a CachedBuilder on this cache.  A
\* Build call proceeds in the steps of SpecBuild; the clock ticks between
\* calls.
BuildIdle == builder.pc \in {"idle", "returned"}

FailCall(r, op, key, val, writeErr) ==
    /\ BuildIdle
    /\ calls < MaxCachedCalls
    /\ cache' = r.c
    /\ files' = r.files
    /\ ret' = [op |-> op, key |-> key, val |-> val, ok |-> r.p.ok, data |-> r.p.data,
               err |-> r.p.err, writeErr |-> writeErr]
    /\ calls' = calls + 1
    /\ UNCHANGED <<now, fetches, procs, builder>>
    /\ UNCHANGED graphVars

\* cache.Set(ctx, key, val)
DoFailSet ==
    \E key \in Keys, val \in Bytes, writeErr \in WriteErrs :
        /\ \E r \in {SetCall(cache, files, key, val, writeErr, now)} :
              FailCall(r, "Set", key, val, writeErr)
        /\ hist' = HistSet(hist, key, val, now)

\* cache.Get(ctx, key)
DoFailGet ==
    \E key \in Keys :
        /\ \E r \in {Call(cache, files, "Get", key, "", now)} :
              FailCall(r, "Get", key, "", "none")
        /\ UNCHANGED hist

\* WithCache(cache, key, fetch)
DoFailWithCache ==
    \E key \in Keys, fetch \in FetchOutcomes, writeErr \in WriteErrs :
        /\ BuildIdle
        /\ calls < MaxCachedCalls
        /\ \E r \in {WithCache(cache, files, key, fetch, writeErr, now)} :
              /\ cache' = r.c
              /\ files' = r.files
              /\ ret' = [op |-> "WithCache", key |-> key, result |-> r.result,
                         err |-> r.err, fetched |-> r.fetched, fetch |-> fetch,
                         writeErr |-> writeErr]
              /\ fetches' = fetches + r.fetched
              /\ hist' = IF r.fetched = 1 /\ r.err = "nil"
                         THEN HistSet(hist, key, Marshal(r.result), now) ELSE hist
        /\ calls' = calls + 1
        /\ UNCHANGED <<now, procs, builder>>
        /\ UNCHANGED graphVars

\* StreamToCache(cache, key, r)
DoFailStreamToCache ==
    \E key \in Keys, read \in ReadOutcomes, writeErr \in WriteErrs :
        /\ BuildIdle
        /\ calls < MaxCachedCalls
        /\ \E r \in {StreamToCache(cache, files, key, read, writeErr, now)} :
              /\ cache' = r.c
              /\ files' = r.files
              /\ ret' = [op |-> "StreamToCache", key |-> key, data |-> r.data,
                         err |-> r.err, read |-> read, writeErr |-> writeErr]
              /\ hist' = IF r.stored THEN HistSet(hist, key, read.data, now) ELSE hist
        /\ calls' = calls + 1
        /\ UNCHANGED <<now, fetches, procs, builder>>
        /\ UNCHANGED graphVars

FailTick ==
    /\ BuildIdle
    /\ calls > 0
    /\ now < MaxTime
    /\ now' = now + 1
    /\ ret' = NoRet
    /\ UNCHANGED <<cache, files, calls, fetches, hist, procs, builder>>
    /\ UNCHANGED graphVars

BuildUnchanged == UNCHANGED <<now, fetches, hist, procs>> /\ UNCHANGED graphVars

\* Build of a Builder created with NewBuilderWithConfig(BuilderConfig{Cache: cache})
DoBuilderBuild ==
    /\ BuildIdle
    /\ calls < MaxCachedCalls
    /\ \E portfolio \in CachedPortfolios :
          builder' = [BuildStart(builder, portfolio) EXCEPT !.mode = "gomod"]
    /\ calls' = calls + 1
    /\ ret' = NoRet
    /\ UNCHANGED <<cache, files>>
    /\ BuildUnchanged

\* Build of NewCachedBuilder(token, cache)
DoCachedBuilderBuild ==
    /\ BuildIdle
    /\ calls < MaxCachedCalls
    /\ \E portfolio \in CachedPortfolios :
          \E look \in {CachedLookup(cache, files, portfolio, now)} :
             /\ cache' = look.c
             /\ files' = look.files
             /\ IF look.hit
                THEN \E ord \in Orders(DOMAIN look.snapshot.Modules) :
                        builder' = CachedHit(portfolio, look.snapshot, ord)
                ELSE builder' = [BuildStart(builder, portfolio) EXCEPT !.mode = "graph"]
    /\ calls' = calls + 1
    /\ ret' = NoRet
    /\ BuildUnchanged

DoCachedOrg ==
    /\ builder.pc = "org"
    /\ builder' = BuildOrg(builder)
    /\ UNCHANGED <<cache, files, calls, ret>>
    /\ BuildUnchanged

DoCachedList ==
    /\ builder.pc = "list"
    /\ Len(builder.allRepos) < MaxRepos
    /\ \E userErr \in BOOLEAN, orgErr \in BOOLEAN :
          builder' = BuildList(builder, userErr, orgErr)
    /\ UNCHANGED <<cache, files, calls, ret>>
    /\ BuildUnchanged

DoCachedRepo ==
    /\ builder.pc = "repo"
    /\ \E contents \in ContentOutcomes(RepoName(builder)), writeErr \in WriteErrs :
          \E r \in {BuildRepoCached(builder, cache, files, contents, writeErr, now)} :
             /\ builder' = r.b
             /\ cache' = r.c
             /\ files' = r.files
    /\ UNCHANGED <<calls, ret>>
    /\ BuildUnchanged

DoBuildReturn ==
    /\ builder.pc = "done"
    /\ \E writeErr \in WriteErrs :
          \E r \in {BuildReturn(builder, cache, files, writeErr, now)} :
             /\ builder' = r.b
             /\ cache' = r.c
             /\ files' = r.files
    /\ UNCHANGED <<calls, ret>>
    /\ BuildUnchanged

InitCachedBuild ==
    /\ InitGraph
    /\ InitCacheVars({CacheDir})

NextCachedBuild ==
    \/ DoFailSet
    \/ DoFailGet
    \/ DoFailWithCache
    \/ DoFailStreamToCache
    \/ FailTick
    \/ DoBuilderBuild
    \/ DoCachedBuilderBuild
    \/ DoCachedOrg
    \/ DoCachedList
    \/ DoCachedRepo
    \/ DoBuildReturn

SpecCachedBuild == InitCachedBuild /\ [][NextCachedBuild]_vars

\* ---------------------------------------------------------------- SpecStale
\* AddModule with references pinned to different versions, then StaleModules
StaleDepLists == SeqsUpTo({ModuleRefAt(id, v) : id \in ModuleIds, v \in Versions}, MaxDeps)
StaleInputs == {Module(id, mg, deps) : id \in ModuleIds, mg \in BOOLEAN, deps \in StaleDepLists}

StaleAddModule == \E m \in StaleInputs : AddModuleStep(MaxStaleAdds, MaxStaleEdges, 1, m)

\* g.StaleModules(dependency, minVersion)
DoStaleModules ==
    /\ result = NoResult
    /\ \E dependency \in {NameOf(id) : id \in ModuleIds}, minVersion \in Versions :
         result' = [op |-> "StaleModules", dependency |-> dependency,
                    minVersion |-> minVersion,
                    stale |-> StaleModules(graph, dependency, minVersion)]
    /\ UNCHANGED <<graphs, filtered, snapshot, adds>>
    /\ UNCHANGED <<cacheVars, builder>>

NextStale ==
    \/ StaleAddModule
    \/ DoStaleModules

SpecStale == Init /\ [][NextStale]_vars

\* ---------------------------------------------------------------- SpecExport
\* AddModule, then ToDOT and ToMermaid on the graph; each run of an export
\* ranges over the maps in an order of its own.  result keeps the text of the
\* run and, in previous, the text of the run before it when that run
\* exported the same graph with the same configuration.
ExportAddModule == \E m \in ModuleInputs : AddModuleStep(MaxExportAdds, MaxExportEdges, 1, m)

PreviousText(op, cfg) ==
    IF result.op = op /\ result.cfg = cfg THEN <<result.text>> ELSE << >>

\* g.ToDOT(cfg)
DoToDOT ==
    /\ result.op \in {"none", "ToDOT"}
    /\ \E cfg \in DOTConfigs :
         \E ordCollect \in Orders(DOMAIN graph.modules),
            ordNodes \in Orders(DOMAIN graph.modules),
            ordEdges \in Orders(DOMAIN graph.modules) :
            \E ordOrgs \in Orders(DOMAIN OrgModules(graph, cfg, ordCollect)) :
               result' = [op |-> "ToDOT", cfg |-> cfg,
                          text |-> WriteDOT(graph, cfg, ordCollect, ordOrgs, ordNodes, ordEdges),
                          previous |-> PreviousText("ToDOT", cfg)]
    /\ UNCHANGED <<graphs, filtered, snapshot, adds>>
    /\ UNCHANGED <<cacheVars, builder>>

\* g.ToMermaid(cfg)
DoToMermaid ==
    /\ result.op \in {"none", "ToMermaid"}
    /\ \E cfg \in MermaidConfigs :
         \E ord \in Orders(DOMAIN graph.modules) :
            result' = [op |-> "ToMermaid", cfg |-> cfg,
                       text |-> WriteMermaid(graph, cfg, ord),
                       previous |-> PreviousText("ToMermaid", cfg)]
    /\ UNCHANGED <<graphs, filtered, snapshot, adds>>
    /\ UNCHANGED <<cacheVars, builder>>

NextExport ==
    \/ ExportAddModule
    \/ DoToDOT
    \/ DoToMermaid

SpecExport == Init /\ [][NextExport]_vars

\* ---------------------------------------------------------------- SpecParse
\* ParseGoMod on the content of a go.mod file, then DirectDependencies on
\* the returned info
DoParseGoMod ==
    /\ result = NoResult
    /\ \E content \in GoModContents :
         LET parsed == ParseGoMod(content)
         IN result' = [op |-> "ParseGoMod", content |-> content,
                       info |-> parsed.info, err |-> parsed.err,
                       direct |-> DirectDependencies(parsed.info)]
    /\ UNCHANGED <<graphs, filtered, snapshot, adds>>
    /\ UNCHANGED <<cacheVars, builder>>

NextParse == DoParseGoMod

SpecParse == Init /\ [][NextParse]_vars

\* ---------------------------------------------------------------- claims

\* C1: when the current dependency lists of the managed modules are acyclic,
\* UpgradeOrder returns every managed module exactly once and every managed
\* dependency before the module that depends on it.
C1_UpgradeOrderTopological ==
    Acyclic(graph) =>
        LET ids == OrderIds(UpgradeOrder(graph))
        IN /\ \A id \in ManagedSet(graph) :
                Cardinality({i \in DOMAIN ids : ids[i] = id}) = 1
           /\ \A a, b \in ManagedSet(graph) :
                DependsOn(graph, a, b) => Pos(ids, b) < Pos(ids, a)

\* C2: Dependents(m.id) is exactly the set of modules of the graph whose
\* current dependency list contains m.id.
C2_DependentsExact ==
    \A id \in DOMAIN graph.modules :
        Range(Dependents(graph, id)) =
            {graph.modules[n] : n \in {x \in DOMAIN graph.modules : DependsOn(graph, x, id)}}

\* C3: when the managed modules contain a dependency cycle, UpgradeOrder
\* returns no error, orders no module that is on a cycle, and reports exactly
\* one Cycle record that holds every managed module left unordered.
C3_CycleReported ==
    ~Acyclic(graph) =>
        LET o   == UpgradeOrder(graph)
            ids == OrderIds(o)
        IN /\ o.err = "nil"
           /\ OnCycle(graph) \cap Range(ids) = {}
           /\ Len(o.Cycles) = 1
           /\ o.Cycles[1].Modules = ManagedSet(graph) \ Range(ids)

\* C4: every module UpgradeOrder emits is, at its step, the ready managed
\* module with the smallest id, and the emission stops only when no managed
\* module is ready.
C4_EmitsSmallestReady ==
    LET ids == OrderIds(UpgradeOrder(graph))
    IN /\ \A k \in DOMAIN ids :
            /\ Ready(graph, Prefix(ids, k - 1)) # {}
            /\ ids[k] = Min(Ready(graph, Prefix(ids, k - 1)))
       /\ Ready(graph, Range(ids)) = {}

\* the managed modules of g all of whose dependency targets are unmanaged
\* (a module of the graph that is not managed, or no module of the graph)
OnlyExternalDeps(g) ==
    {a \in ManagedSet(g) :
        /\ g.modules[a].Dependencies # << >>
        /\ Range(DepIds(g.modules[a])) \cap ManagedSet(g) = {}}

\* C5: UpgradeOrder holds managed modules only; a managed module whose
\* dependencies are all unmanaged is in the queue before the first emission,
\* is ordered, follows no module of a greater id, and is the whole result when
\* it is the only managed module.
C5_ExternalEdgesIgnored ==
    LET o   == UpgradeOrder(graph)
        ids == OrderIds(o)
    IN /\ \A i \in DOMAIN o.Modules :
            o.Modules[i].IsManaged /\ o.Modules[i] = graph.modules[ids[i]]
       /\ \A a \in OnlyExternalDeps(graph) :
            /\ a \in Range(InitialQueue(graph))
            /\ a \in Range(ids)
            /\ \A j \in 1..(Pos(ids, a) - 1) : ids[j] < a
            /\ ManagedSet(graph) = {a} =>
                  o.Modules = <<graph.modules[a]>> /\ o.Cycles = << >>

\* a managed module depends on a module of the graph that is not managed and
\* on nothing else, next to a second managed module
C5_Witness ==
    \E a \in OnlyExternalDeps(graph) :
        /\ Range(DepIds(graph.modules[a])) \subseteq DOMAIN graph.modules
        /\ Cardinality(ManagedSet(graph)) >= 2
        /\ a \in Range(OrderIds(UpgradeOrder(graph)))

\* C6: the forward index lists, for every module, exactly the targets of its
\* current dependency list, and the reverse index is the transpose of the
\* forward index.
C6_IndexesMatchDependencies ==
    /\ \A a \in DOMAIN graph.modules : graph.edges[a] = DepIds(graph.modules[a])
    /\ \A a, b \in ModuleIds :
          b \in Range(graph.edges[a]) <=> a \in Range(graph.reverse[b])

\* C8: the graph rebuilt from a snapshot answers Dependents, Dependencies and
\* UpgradeOrder as the live graph does, whatever order the snapshot's modules
\* are re-added in.
C8_SnapshotSameQueries ==
    \A ord \in Orders(DOMAIN Snapshot(graph).Modules) :
        LET r == BuildFromSnapshot(Snapshot(graph), ord)
        IN /\ \A id \in ModuleIds :
                /\ Range(Dependents(r, id)) = Range(Dependents(graph, id))
                /\ Range(Dependencies(r, id)) = Range(Dependencies(graph, id))
           /\ UpgradeOrder(r) = UpgradeOrder(graph)

\* C7: the graph rebuilt from a snapshot of a graph has the same AllModules,
\* the same Stats and the same portfolio as that graph, whatever order the
\* snapshot's modules are re-added in.
C7_SnapshotRoundTrip ==
    \A h \in DOMAIN graphs :
        \A ord \in Orders(DOMAIN Snapshot(graphs[h]).Modules) :
            LET r == BuildFromSnapshot(Snapshot(graphs[h]), ord)
            IN /\ AllModules(r) = AllModules(graphs[h])
               /\ Stats(r) = Stats(graphs[h])
               /\ r.portfolio = graphs[h].portfolio

\* a snapshot was taken of a graph with a portfolio, a managed and an
\* unmanaged module and a dependency, and the graph is as it was then
C7_Witness ==
    /\ snapshot # NoSnapshot
    /\ snapshot = Snapshot(graph)
    /\ graph.portfolio # ZeroPortfolio
    /\ Stats(graph).ManagedModules >= 1
    /\ Stats(graph).ExternalModules >= 1
    /\ Stats(graph).TotalEdges >= 1


OtherOrg == "github.com/spf13"

\* C9: AllModules of FilterByOrg(org) is exactly the modules of the original
\* whose Org is org, and AllModules of FilterByLanguage(lang) exactly those
\* whose Language is lang.
C9_FilterExact ==
    /\ \A org \in Orgs \cup {OtherOrg} :
          \A ord \in Orders({id \in DOMAIN graph.modules : graph.modules[id].Org = org}) :
             LET r        == FilterByOrg(graphs, 1, org, ord)
                 InOrg(m) == m.Org = org
             IN AllModules(r.graphs[r.ret]) = SelectSeq(AllModules(graph), InOrg)
    /\ \A lang \in Languages \cup {"rust"} :
          \A ord \in Orders({id \in DOMAIN graph.modules : graph.modules[id].Language = lang}) :
             LET r         == FilterByLanguage(graphs, 1, lang, ord)
                 InLang(m) == m.Language = lang
             IN AllModules(r.graphs[r.ret]) = SelectSeq(AllModules(graph), InLang)

\* a filter has returned a graph that holds one module of the original and
\* leaves another one out
C9_Witness ==
    /\ filtered # Nil
    /\ adds = MaxQueryAdds
    /\ Cardinality(DOMAIN graph.modules) = 2
    /\ Cardinality(DOMAIN graphs[filtered].modules) = 1
    /\ DOMAIN graphs[filtered].modules \subseteq DOMAIN graph.modules

\* C10: a filter, a snapshot or a read-only query changes no graph; a filter
\* returns a graph object that did not exist before; AddModule changes one
\* graph object only and no snapshot taken earlier.
C10_QueriesLeaveGraph ==
    [][/\ (DoFilterByOrg \/ DoFilterByLanguage \/ DoSnapshot \/ DoQuery) =>
            \A h \in DOMAIN graphs : graphs'[h] = graphs[h]
       /\ (DoFilterByOrg \/ DoFilterByLanguage) =>
            filtered' \notin DOMAIN graphs /\ filtered' \in DOMAIN graphs'
       /\ QAddModule =>
            /\ DOMAIN graphs' = DOMAIN graphs
            /\ Cardinality({h \in DOMAIN graphs : graphs'[h] # graphs[h]}) <= 1
            /\ snapshot' = snapshot]_vars

\* a module was added to a filtered graph after the filter and the original
\* does not hold it
C10_Witness ==
    /\ filtered # Nil
    /\ filtered # 1
    /\ \E id \in DOMAIN graphs[filtered].modules : id \notin DOMAIN graph.modules

\* C11: StaleModules(name, minVersion) reports exactly the references held by
\* managed modules whose target name is name and whose pinned version is
\* below minVersion in string order, one report per reference; a reference
\* pinned to minVersion or to a greater string is not reported, and no
\* reference held by an unmanaged module is reported.
StaleRefs(m, name, minVersion, current) ==
    {i \in DOMAIN m.Dependencies :
        /\ NameOf(m.Dependencies[i].ID) = name
        /\ m.Dependencies[i].Version = current
        /\ VersionRank[current] < VersionRank[minVersion]}

C11_StaleModulesExact ==
    result.op = "StaleModules" =>
        /\ \A i \in DOMAIN result.stale :
              /\ result.stale[i].Dependency = result.dependency
              /\ result.stale[i].Latest = result.minVersion
              /\ result.stale[i].Module.ID \in DOMAIN graph.modules
              /\ result.stale[i].Module = graph.modules[result.stale[i].Module.ID]
        /\ \A id \in ModuleIds, current \in Versions :
              Cardinality({i \in DOMAIN result.stale :
                              /\ result.stale[i].Module.ID = id
                              /\ result.stale[i].Current = current})
              = IF id \in DOMAIN graph.modules /\ graph.modules[id].IsManaged
                THEN Cardinality(StaleRefs(graph.modules[id], result.dependency,
                                           result.minVersion, current))
                ELSE 0

\* "v0.10.0" is reported against "v0.9.0" for a managed holder, while a
\* reference to the same name held by an unmanaged module is left out
C11_Witness ==
    /\ result.op = "StaleModules"
    /\ result.minVersion = "v0.9.0"
    /\ Len(result.stale) = 1
    /\ result.stale[1].Current = "v0.10.0"
    /\ \E id \in DOMAIN graph.modules :
          /\ ~graph.modules[id].IsManaged
          /\ \E i \in DOMAIN graph.modules[id].Dependencies :
                /\ NameOf(graph.modules[id].Dependencies[i].ID) = result.dependency
                /\ graph.modules[id].Dependencies[i].Version = "v0.10.0"

\* C12: a Get(k) issued after the write-time expiration (Set time plus TTL)
\* of the latest Set(k) is a miss and leaves no file of k in the durable
\* tier, also when an earlier Get was served from the durable tier and
\* repopulated the in-process tier.
C12_ExpiredGetMisses ==
    (/\ ret.op = "Get"
     /\ hist[ret.key].state = "set"
     /\ now > hist[ret.key].expiresAt)
    => /\ ~ret.ok
       /\ File(hashKey(ret.key), ".meta") \notin DOMAIN files
       /\ File(hashKey(ret.key), ".json") \notin DOMAIN files

\* C13: a Get(k) before the expiry of the latest Set(k), with no Delete(k)
\* or Clear since that Set, is a hit that returns the value of that Set, in
\* a memory-only cache and in a cache with a durable tier, also when the
\* in-process tier does not hold k and the entry is read from the files.
C13_RoundTrip ==
    (/\ ret.op = "Get"
     /\ hist[ret.key].state = "set"
     /\ now < hist[ret.key].expiresAt)
    => /\ ret.ok
       /\ ret.data = hist[ret.key].val

\* a hit served from the files: the in-process entry was written by the Get,
\* later than the Set
C13_Witness ==
    /\ ret.op = "Get"
    /\ ret.ok
    /\ hist[ret.key].state = "set"
    /\ now < hist[ret.key].expiresAt
    /\ cache.dir # ""
    /\ cache.memory[hashKey(ret.key)].expiresAt > hist[ret.key].expiresAt

\* C14: Prune removes every expired entry from both tiers, leaves every
\* unexpired entry as it was, and returns the number of expired entries:
\* after n keys were set and have expired it returns n.
ExpiredKeys(c, fs, t) ==
    {k \in Keys :
        \/ /\ hashKey(k) \in DOMAIN c.memory
           /\ t > c.memory[hashKey(k)].expiresAt
        \/ /\ File(hashKey(k), ".meta") \in DOMAIN fs
           /\ t > fs[File(hashKey(k), ".meta")].ExpiresAt}

EntryOf(c, fs, k) ==
    [memory |-> IF hashKey(k) \in DOMAIN c.memory THEN <<c.memory[hashKey(k)]>> ELSE << >>,
     files  |-> {<<n, fs[n]>> : n \in {m \in DOMAIN fs : m.hash = hashKey(k)}}]

C14_PruneCountsExpired ==
    [][DoPrune =>
         /\ ret'.pruned = Cardinality(ExpiredKeys(cache, files, now))
         /\ ExpiredKeys(cache', files', now) = {}
         /\ \A k \in Keys \ ExpiredKeys(cache, files, now) :
               EntryOf(cache', files', k) = EntryOf(cache, files, k)]_vars

\* C16: a Get(k) that follows Delete(k) or Clear with no Set(k) in between
\* is a miss; when Delete(k) returns neither the in-process tier nor the
\* content file holds k and every other key's entry is as it was; when
\* Clear returns no tier holds any entry.
C16_DeletedStaysMissing ==
    [][/\ (ret'.op = "Get" /\ hist'[ret'.key].state = "deleted") => ~ret'.ok
       /\ ret'.op = "Delete" =>
            /\ hashKey(ret'.key) \notin DOMAIN cache'.memory
            /\ File(hashKey(ret'.key), ".json") \notin DOMAIN files'
            /\ \A k \in Keys \ {ret'.key} :
                  EntryOf(cache', files', k) = EntryOf(cache, files, k)
       /\ ret'.op = "Clear" =>
            /\ cache'.memory = << >>
            /\ files' = << >>]_vars

\* a Get misses on a deleted key of a cache with a durable tier although
\* Delete left the metadata file of the key in the directory
C16_Witness ==
    /\ ret.op = "Get"
    /\ ~ret.ok
    /\ hist[ret.key].state = "deleted"
    /\ cache.dir # ""
    /\ File(hashKey(ret.key), ".meta") \in DOMAIN files

\* C17 as stated: when the key is cached and unexpired WithCache returns the
\* cached value without invoking fetch; otherwise it invokes fetch exactly
\* once, stores the result under the key and returns it.
CachedUnexpired(k) == hist[k].state = "set" /\ now < hist[k].expiresAt

Stored(c, fs, k, data, t) ==
    /\ hashKey(k) \in DOMAIN c.memory
    /\ c.memory[hashKey(k)] = [data |-> data, expiresAt |-> t + TTL]
    /\ c.dir # "" =>
          /\ File(hashKey(k), ".json") \in DOMAIN fs
          /\ fs[File(hashKey(k), ".json")] = data
          /\ File(hashKey(k), ".meta") \in DOMAIN fs
          /\ fs[File(hashKey(k), ".meta")] = [ExpiresAt |-> t + TTL]

HoldsMu(id) == cache.mu.writer = id \/ id \in cache.mu.readers

AtFileOp(p) ==
    p.pc \in {"read_meta", "read_data", "write_meta", "write_data",
              "remove_meta", "remove_data", "read_dir", "entry"}

Quiescent == \A id \in ProcIds : procs[id].pc = "done"

TiersAgree ==
    \A k \in Keys :
        /\ (/\ hashKey(k) \in DOMAIN cache.memory
            /\ File(hashKey(k), ".json") \in DOMAIN files)
           => cache.memory[hashKey(k)].data = files[File(hashKey(k), ".json")]
        /\ (/\ File(hashKey(k), ".json") \in DOMAIN files
            /\ File(hashKey(k), ".meta") \in DOMAIN files)
           => \E w \in hist :
                 /\ w.key = k
                 /\ w.val = files[File(hashKey(k), ".json")]
                 /\ w.expiresAt = files[File(hashKey(k), ".meta")].ExpiresAt

C15_FileOpsUnderMutex ==
    /\ \A id \in ProcIds : AtFileOp(procs[id]) => HoldsMu(id)
    /\ Quiescent => TiersAgree

\* C18: when the listing of an account fails, Build returns at once with an
\* error and no graph and goes on to no further account; Build returns an
\* error in no other case.
C18_ListFailureAborts ==
    /\ builder.listFailed # 0 =>
          /\ builder.pc = "done"
          /\ builder.err # "nil"
          /\ builder.ret = << >>
          /\ builder.org = builder.listFailed
    /\ (builder.pc = "done" /\ builder.listFailed = 0) =>
          /\ builder.err = "nil"
          /\ builder.ret = <<builder.graph>>

\* the listing of the first of two accounts failed after none succeeded; the
\* second account has an owner and was not listed
C18_Witness ==
    /\ builder.pc = "done"
    /\ builder.err # "nil"
    /\ builder.listFailed = 1
    /\ Len(builder.portfolio.Orgs) = 2
    /\ extractOwner(builder.portfolio.Orgs[2]) # EmptyString

\* C19: when no listing fails, Build returns no error and the returned graph
\* holds the module of exactly the repositories whose manifest was fetched
\* and parsed, whatever number of other manifests failed.
C19_ManifestFailureSkipsOneRepo ==
    (builder.pc = "done" /\ builder.listFailed = 0) =>
        /\ builder.err = "nil"
        /\ builder.ret # << >>
        /\ DOMAIN builder.ret[1].modules = {e.module : e \in builder.parsed}
        /\ \A e \in builder.parsed : builder.ret[1].modules[e.module].ID = e.module

\* one manifest failed and the module of another repository is in the graph
C19_Witness ==
    /\ builder.pc = "done"
    /\ builder.err = "nil"
    /\ builder.skipped # {}
    /\ builder.parsed # {}
    /\ DOMAIN builder.ret[1].modules # {}

\* C20: a module inserted by Build is managed exactly if its Org is one of
\* the accounts of the portfolio, whatever the form of the account entry and
\* whatever module path the manifest declares.
C20_ManagedIffOrgInPortfolio ==
    \A id \in DOMAIN builder.graph.modules :
        builder.graph.modules[id].IsManaged
            <=> (builder.graph.modules[id].Org \in Range(builder.portfolio.Orgs))

\* C21: every reference that Build creates is managed exactly if the owning
\* account of the referenced module, its host and owner segment, is one of
\* the accounts of the portfolio.
C21_RefManagedIffAccountInPortfolio ==
    \A id \in DOMAIN builder.graph.modules :
        \A i \in DOMAIN builder.graph.modules[id].Dependencies :
            LET ref == builder.graph.modules[id].Dependencies[i]
            IN ref.IsManaged
                 <=> (ExtractOrg(LanguageGo, GoModulePath(ref.ID))
                          \in Range(builder.portfolio.Orgs))

\* C22: when Build stops at a failed listing after the modules of earlier
\* repositories were inserted, the graph it returns holds exactly the
\* modules inserted up to that point.
C22_AbortedBuildYieldsPartialGraph ==
    (builder.pc = "done" /\ builder.listFailed # 0 /\ builder.parsed # {}) =>
        /\ builder.ret # << >>
        /\ DOMAIN builder.ret[1].modules = {e.module : e \in builder.parsed}

\* C23: two runs of ToDOT, and two runs of ToMermaid, on the same graph with
\* the same configuration produce the same text.
C23_ExportDeterministic ==
    (result.op \in {"ToDOT", "ToMermaid"} /\ result.previous # << >>) =>
        result.text = result.previous[1]

\* the requirement text of a line: the line itself inside a require block,
\* the words after "require" for a single-line directive, << >> for a line
\* that is no require line
RequireText(line, inBlock) ==
    IF line = << >> \/ line[1] = "//" \/ line \in {<<"require", "(">>, <<")">>} THEN << >>
    ELSE IF Len(line) >= 2 /\ line[1] \in {"module", "go"} THEN << >>
    ELSE IF inBlock THEN line
    ELSE IF line[1] = "require" THEN Tail(line)
    ELSE << >>

RECURSIVE StatedFlags(_, _)
\* for each require line with at least two words before its marker comment,
\* in order, whether the line carries the marker
StatedFlags(content, inBlock) ==
    IF content = << >> THEN << >>
    ELSE LET line == Head(content)
             text == RequireText(line, inBlock)
             words == IF HasIndirectMarker(text) THEN BeforeComment(text) ELSE text
             block == IF line = <<"require", "(">> THEN TRUE
                      ELSE IF line = <<")">> THEN FALSE ELSE inBlock
         IN (IF Len(words) >= 2 THEN <<HasIndirectMarker(text)>> ELSE << >>)
            \o StatedFlags(Tail(content), block)

\* C25: ParseGoMod returns no error whatever the lines are, records one
\* requirement for each require line with at least two words, in either
\* form, flags it indirect exactly if the line carries the marker, and
\* DirectDependencies returns the requirements not flagged, in their order.
C25_ParseGoModTotal ==
    result.op = "ParseGoMod" =>
        /\ result.err = "nil"
        /\ [i \in DOMAIN result.info.Require |-> result.info.Require[i].Indirect]
              = StatedFlags(result.content, FALSE)
        /\ result.direct = SelectSeq(result.info.Require, LAMBDA req : ~req.Indirect)

\* C26: in every graph AddModule can build, UpgradeOrder lists no id twice,
\* the listed ids and the ids of the Cycle record partition the managed
\* modules, and there is a Cycle record, exactly one and not empty, exactly
\* if a managed module is not listed.
C26_OrderAndCyclePartitionManaged ==
    LET o       == UpgradeOrder(graph)
        ids     == OrderIds(o)
        managed == {id \in DOMAIN graph.modules : graph.modules[id].IsManaged}
        inCycle == UNION {c.Modules : c \in Range(o.Cycles)}
    IN /\ \A i, j \in DOMAIN ids : ids[i] = ids[j] => i = j
       /\ Range(ids) \cap inCycle = {}
       /\ Range(ids) \cup inCycle = managed
       /\ Len(o.Cycles) <= 1
       /\ (o.Cycles # << >>) <=> (managed \ Range(ids) # {})
       /\ \A c \in Range(o.Cycles) : c.Modules # {}

\* a module was added again with another dependency list, some managed
\* modules are listed and others are in the Cycle record
C26_Witness ==
    /\ adds > Cardinality(DOMAIN graph.modules)
    /\ UpgradeOrder(graph).Modules # << >>
    /\ UpgradeOrder(graph).Cycles # << >>
    /\ \E id \in DOMAIN graph.modules : ~graph.modules[id].IsManaged

\* C27: Build terminates.  Every pass through one of its loops advances the
\* position of that loop: a pass of the listing loop that does not end the
\* listing moves on to a later page, a pass of the loop over the listed
\* repositories to the next repository, a pass of the loop over the accounts
\* that lists nothing to the next account.
C27_BuildTerminates ==
    [][/\ (builder.pc = "list" /\ builder'.pc = "list") => builder'.page > builder.page
       /\ (builder.pc = "repo" /\ builder'.pc = "repo") => builder'.repo > builder.repo
       /\ (builder.pc = "org" /\ builder'.pc = "org") => builder'.org > builder.org
       /\ (builder.pc = "repo" /\ builder'.pc = "org") => builder'.org > builder.org]_vars

\* C28: once a Delete of a key has returned that no Set of the key
\* overlapped or followed, every Get of the key entered afterwards is a
\* miss, however the Delete interleaved with the Get calls that ran
\* beside it.
C28_DeleteNotUndoneByReader ==
    \A id \in ProcIds :
        (id \in hist.late /\ procs[id].op = "Get" /\ procs[id].pc = "done")
            => ~procs[id].ok

\* C29: when one Get and one Set of a key have run side by side and both
\* have returned, the directory holds the value of the Set and the
\* metadata file that the Set wrote.
C29_GetKeepsNewerFiles ==
    (/\ Quiescent
     /\ Len(hist.began) = 2
     /\ {hist.began[1].op, hist.began[2].op} = {"Get", "Set"}) =>
        LET set == CHOOSE i \in 1..2 : hist.began[i].op = "Set"
        IN /\ InDir(files, File(hashKey("k1"), ".json"))
           /\ InDir(files, File(hashKey("k1"), ".meta"))
           /\ files[File(hashKey("k1"), ".json")] = hist.began[set].val
           /\ files[File(hashKey("k1"), ".meta")].ExpiresAt = now + TTL

\* the entry that a Set of key k with value val at clock value t leaves in
\* the in-process tier
WrittenEntry(k) == [data |-> hist[k].val, expiresAt |-> hist[k].expiresAt]

\* C24, in-process tier: after a Set whose file write failed the entry is in
\* the in-process tier, and a Get of a key whose last Set has not expired
\* hits with the written value, whether or not the files were written
C24_MemoryAuthoritative ==
    /\ (ret.op = "Set" /\ ret.writeErr # "none") =>
           /\ hashKey(ret.key) \in DOMAIN cache.memory
           /\ cache.memory[hashKey(ret.key)] = WrittenEntry(ret.key)
    /\ (ret.op = "Get" /\ hist[ret.key].state = "set" /\ now < hist[ret.key].expiresAt) =>
           ret.ok /\ ret.data = hist[ret.key].val

\* C24, callers that discard the error of Set: WithCache returns what fetch
\* returned, and a Build whose listing did not fail returns its graph
C24_CallersReturnResult ==
    /\ (ret.op = "WithCache" /\ ret.fetched = 1 /\ ret.fetch.err = "nil") =>
           ret.err = "nil" /\ ret.result = ret.fetch.result
    /\ (builder.pc = "returned" /\ builder.listFailed = 0) =>
           builder.err = "nil" /\ builder.ret # << >>

\* C24, StreamToCache: the bytes read are returned with no error
C24_StreamIgnoresWriteError ==
    (ret.op = "StreamToCache" /\ ret.read.err = "nil") =>
        ret.err = "nil" /\ ret.data = ret.read.data

\* C24: a write error of the durable tier during Set is ignored by the
\* operation that caused it and the in-process tier stays authoritative: the
\* entry is in the in-process tier, later Gets hit with the written value
\* until expiry, and Builder.Build, CachedBuilder.Build, WithCache and
\* StreamToCache return their result without an error
C24_WriteErrorIgnored ==
    /\ C24_MemoryAuthoritative
    /\ C24_CallersReturnResult
    /\ C24_StreamIgnoresWriteError

\* a Get hit on a key whose data file was never written, and a returned
\* Build during which a file write failed
C24_GetHitWithoutFile ==
    /\ ret.op = "Get" /\ ret.ok
    /\ ~InDir(files, File(hashKey(ret.key), ".json"))
C24_BuildWithFailedWrite ==
    builder.pc = "returned" /\ builder.writeFailed /\ builder.ret # << >>

\* C30: the graph that CachedBuilder.Build(P) returns has portfolio P: it
\* was built, now or by an earlier call, for a request with the Name, Orgs
\* and Languages of P
C30_CachedGraphIsForRequest ==
    (builder.pc = "returned" /\ builder.mode = "graph" /\ builder.ret # << >>) =>
        builder.ret[1].portfolio = builder.portfolio

====
